---------------------------- MODULE Spec2Model ----------------------------
(***************************************************************************)
(* J Read: the chapter editors' auto-save state machine.                   *)
(*                                                                         *)
(* EditChapterPage (src/App.tsx 3379-3611) with the ApiService of          *)
(* src/unnamed/part_003, whose chapter writes return null on a remote      *)
(* error, and ChapterEditorPage (src/App.tsx 1331-1495) with the           *)
(* ApiService of src/data.ts, whose chapter writes throw on a remote error.*)
(*                                                                         *)
(* One step of the model is one task of the browser's event loop: a user   *)
(* event handler, a timer callback, or the continuation of an awaited      *)
(* remote call, together with the render and the effects it causes.        *)
(* Time advances in ticks of 2000 / TicksPerDelay ms; a timer that is due  *)
(* runs before time advances further.                                      *)
(***************************************************************************)
EXTENDS Integers, Sequences, FiniteSets, Bags, TLC

\* ------------------------------------------------------------ bounds

\* Write requests (addChapter / updateChapter) that may be in flight together.
MaxInflight == 2

\* Rows the remote chapters table of the novel may hold.
MaxChapters == 2

\* Ticks of model time in one debounce delay.
TicksPerDelay == 2

\* Auto-retry timeouts (setTimeout(() => setSaveStatus('dirty'), 2000)) pending together.
MaxRetryTimers == 1

\* ------------------------------------------------------------ program constants

\* window.setTimeout(..., 2000): the debounce delay of the auto-save effect, in ms.
DebounceMs == 2000

\* setTimeout(() => setSaveStatus('dirty'), 2000): the delay of the auto-retry, in ms.
RetryMs == 2000

\* A delay in ms as a number of ticks.
Ticks(ms) == (ms * TicksPerDelay) \div DebounceMs

\* autoSaveTimeoutRef holds no live timer.
NoTimer == -1

\* Values the user types into the title input and the content textarea.
TitleValues == {"", "T"}
ContentValues == {"", "a"}

VARIABLES
    chapters,   \* the remote chapters table of the novel: row id -> row (ids are 1..Len)
    inflight,   \* the bag of remote calls issued and not yet resolved, each with what its
                \* continuation captured
    page,       \* the route rendered: "edit-chapter", "manage-chapters" or "my-works" of
                \* the later application, "editor", "dashboard" or "/" of the earlier one
    inst,       \* the number of the mounted editor instance (continuations of an
                \* earlier instance set no state)
    ed,         \* the state of the mounted editor: of EditChapterPage on "edit-chapter",
                \* of ChapterEditorPage on "editor"
    retryTimeouts, \* the pending auto-retry timeouts of the mounted instance: ticks left of each
    hist,       \* observations of the run, read by the properties only
    detail,     \* the state of NovelDetailPage on "novel-detail"
    novels,     \* the novel list of NovelsProvider, shared by the pages
    remote,     \* the remote rows of the novel on "novel-detail" and of its reader
    auth,       \* the user of AuthProvider: the signed-in user's id and role, or NoUser
    admin,      \* the state of AdminPanelPage on "admin-panel"
    profiles,   \* the roles of the remote profiles table: user id -> role (ids are 1..Len)
    home,       \* the state of HomePage on "home"
    reader,     \* the state of ReaderPage on "reader", with its route's chapter number
    session,    \* the state of App's auth context and the session of the auth client
    search,     \* the state of SearchResultsPage on "search", with its route's query
    manage      \* the state of ManageChaptersPage in the author's browser

vars == <<chapters, inflight, page, inst, ed, retryTimeouts, hist, detail, novels, remote,
          auth, admin, profiles, home, reader, session, search, manage>>

\* The variables by the pages that use them; others is what the editors leave alone.
editors == <<chapters, ed, retryTimeouts, hist>>
readers == <<detail, novels, remote>>
accounts == <<auth, admin, profiles>>
visitors == <<reader, session, search, manage>>
others == <<readers, accounts, home, visitors>>

\* ------------------------------------------------------------ remote service

\* novel.chapters.map(c => c.chapterNumber): the editor reads the chapters of the
\* loaded novel for their numbers only, so the model keeps these.
ChapterNumbers(tbl) == [k \in 1..Len(tbl) |-> tbl[k].chapterNumber]

\* Math.max(...nums) over a non-empty list.
RECURSIVE MaxChapterNumber(_)
MaxChapterNumber(nums) ==
    IF Len(nums) = 1 THEN nums[1]
    ELSE LET m == MaxChapterNumber(Tail(nums))
         IN IF nums[1] > m THEN nums[1] ELSE m

\* (novel.chapters.length > 0 ? Math.max(...) : 0) + 1
NewChapterNumber(nums) == (IF Len(nums) > 0 THEN MaxChapterNumber(nums) ELSE 0) + 1

\* title || "Untitled Draft": the empty string is falsy.
OrDefault(t, d) == IF t = "" THEN d ELSE t

\* The row an accepted addChapter inserts; the service assigns the next id.
InsertedRow(tbl, r) ==
    [id |-> Len(tbl) + 1, title |-> r.title, content |-> r.content,
     chapterNumber |-> r.chapterNumber]

\* The table after the service accepted the write request r. Of a row the model
\* keeps the columns the editor reads back: id, title, content, chapter_number.
Accepted(tbl, r) ==
    IF r.op \in {"addChapter", "createChapter"} THEN Append(tbl, InsertedRow(tbl, r))
    ELSE IF r.id \in 1..Len(tbl)
         THEN [tbl EXCEPT ![r.id] = [@ EXCEPT !.title = r.title, !.content = r.content]]
         ELSE tbl

IsWrite(r) == r.op \in {"addChapter", "createChapter", "updateChapter"}

\* The number of requests of one kind in the bag reqs.
Count(reqs, P(_)) == BagCardinality([r \in {x \in DOMAIN reqs : P(x)} |-> reqs[r]])

IsCreate(r) == r.op \in {"addChapter", "createChapter"}

\* The bag reqs without one copy of r, and with one more.
Without(reqs, r) == reqs (-) SetToBag({r})
With(reqs, r) == reqs (+) SetToBag({r})

\* ------------------------------------------------------------ EditChapterPage

\* The useState initial values of EditChapterPage.
Blank ==
    [title |-> "", content |-> "", novel |-> [loaded |-> FALSE, chapters |-> <<>>],
     isLoading |-> TRUE, saveStatus |-> "idle", isSubmittingManual |-> FALSE,
     isEditMode |-> FALSE, chapterIdFromParams |-> 0, autoSaveTimeout |-> NoTimer]

\* One getNovel call of loadData; its continuation captured the route's chapterId.
LoadRequest(i, cid) ==
    [op |-> "getNovel", by |-> "load", page |-> "edit-chapter", inst |-> i, id |-> cid,
     title |-> "", content |-> "", chapterNumber |-> 0]

\* An auto-save effect whose timer, once pending, is left to run when a later
\* render finds the status still dirty.
AutoSaveEffectKeepsTimer(old, new, novelSet) ==
    IF new.isLoading \/ new.saveStatus # "dirty"
    THEN [new EXCEPT !.autoSaveTimeout = NoTimer]
    ELSE IF old.autoSaveTimeout # NoTimer
         THEN [new EXCEPT !.autoSaveTimeout = old.autoSaveTimeout]
         ELSE [new EXCEPT !.autoSaveTimeout = Ticks(DebounceMs)]

\* The auto-save effect after a render: when one of its dependencies changed, the
\* cleanup of the previous run clears the timer it set, and the effect starts a new
\* one only when the page is loaded and the status is dirty. novelSet: setNovel was
\* called (a new object, so the dependency changed whatever it holds).
AutoSaveEffect(old, new, novelSet) ==
    IF ~novelSet /\ old.title = new.title /\ old.content = new.content
       /\ old.saveStatus = new.saveStatus /\ old.isLoading = new.isLoading
       /\ old.chapterIdFromParams = new.chapterIdFromParams
    THEN new
    ELSE [new EXCEPT !.autoSaveTimeout =
             IF new.isLoading \/ new.saveStatus # "dirty" THEN NoTimer
             ELSE Ticks(DebounceMs)]

\* The load effect when the route's chapterId changed: setIsEditMode, and loadData
\* up to its await (setIsLoading(true)).
LoadEffect(e, cid) ==
    [e EXCEPT !.chapterIdFromParams = cid, !.isEditMode = (cid # 0), !.isLoading = TRUE]

\* The page, the instance and its state, as one value the handlers transform.
UI == [page |-> page, inst |-> inst, ed |-> ed, retry |-> retryTimeouts, loads |-> EmptyBag]

\* setState calls of a continuation reach the component only while the instance
\* that issued the call is the mounted one.
Live(ui, r) == ui.page = r.page /\ ui.inst = r.inst

\* The continuation's setState calls f(ed), followed by the auto-save effect.
SetState(ui, r, new, novelSet) ==
    IF Live(ui, r) THEN [ui EXCEPT !.ed = AutoSaveEffect(ui.ed, new, novelSet)] ELSE ui

\* navigate() to another page: EditChapterPage unmounts, the effect's cleanup clears
\* the timer, and its state and its retry timeouts no longer matter.
NavigateAway(ui, target) ==
    [ui EXCEPT !.page = target, !.ed = Blank, !.retry = <<>>]

\* navigate(`/edit-chapter/${novelId}/${id}`, { replace: true }): the mounted
\* EditChapterPage keeps its state and its load effect runs again for the new
\* chapterId; from another page a new instance mounts.
NavigateEditChapter(ui, cid) ==
    IF ui.page = "edit-chapter"
    THEN IF ui.ed.chapterIdFromParams = cid THEN ui
         ELSE [ui EXCEPT !.ed = AutoSaveEffect(ui.ed, LoadEffect(ui.ed, cid), FALSE),
                         !.loads = With(ui.loads, LoadRequest(ui.inst, cid))]
    ELSE [ui EXCEPT !.page = "edit-chapter", !.inst = ui.inst + 1,
                    !.ed = LoadEffect(Blank, cid), !.retry = <<>>,
                    !.loads = With(ui.loads, LoadRequest(ui.inst + 1, cid))]

\* The variables of the page take the values of ui; reqs are the calls left in flight.
Commit(ui, reqs) ==
    /\ page' = ui.page
    /\ inst' = ui.inst
    /\ ed' = ui.ed
    /\ retryTimeouts' = ui.retry
    /\ inflight' = reqs (+) ui.loads

\* ------------------------------------------------------------ observations

\* What the properties read of the past of the mounted instance (one editing
\* session). A specification records the observations its properties read, named
\* in watch:
\*   "burst":   sinceEdit, the ticks since the last edit (capped at one debounce
\*              delay); edited, whether there was an edit; burstSaves, the auto-save
\*              writes issued since the last edit (capped at 2); failed, whether a
\*              write of the session has failed remotely;
\*   "session": creates, the create requests the session issued that have not
\*              failed (capped at 2); unretried, whether the last auto-save write
\*              to resolve failed and neither the user nor the editor has acted since;
\*   "submit":  submitted, whether a manual save was started; cancelled, whether
\*              the last one found the debounce timer pending; restarted, whether an
\*              edit or an auto-retry came after the last manual save started.
HistOf(w) ==
    [watch |-> w, sinceEdit |-> 0, edited |-> FALSE, burstSaves |-> 0, failed |-> FALSE,
     creates |-> 0, unretried |-> FALSE, submitted |-> FALSE, cancelled |-> FALSE,
     restarted |-> FALSE]

\* The routes of the two chapter editors.
Editors == {"edit-chapter", "editor"}

\* hist after a step that moved the page from ui0 to ui: a session ends when its
\* instance unmounts.
Observe(ui0, ui, h) ==
    hist' = IF ui.page \notin Editors \/ ui.inst # ui0.inst THEN HistOf(h.watch) ELSE h

\* hist after an edit.
Edited(h) ==
    [h EXCEPT !.sinceEdit = 0,
              !.edited = @ \/ "burst" \in h.watch,
              !.burstSaves = 0,
              !.unretried = FALSE,
              !.restarted = @ \/ ("submit" \in h.watch /\ h.submitted)]

\* ------------------------------------------------------------ EditChapterPage: steps

\* getNovel of loadData resolves (src/App.tsx 3401-3422). A remote error makes
\* ApiService.getNovel return null.
LoadDataResolves(r, ok) ==
    /\ BagIn(r, inflight)
    /\ r.op = "getNovel" /\ r.page = "edit-chapter"
    /\ LET found == r.id \in 1..Len(chapters)
           loaded == [ed EXCEPT !.novel = [loaded |-> TRUE, chapters |-> ChapterNumbers(chapters)],
                                !.title = IF found THEN chapters[r.id].title ELSE @,
                                !.content = IF found THEN chapters[r.id].content ELSE @,
                                !.saveStatus = "idle",
                                !.isLoading = FALSE]
           ui == IF ~ok THEN NavigateAway(UI, "my-works")
                 ELSE IF r.id # 0 /\ ~found
                      THEN NavigateAway(UI, "manage-chapters")
                      ELSE SetState(UI, r, loaded, TRUE)
       IN /\ Commit(ui, Without(inflight, r))
          /\ Observe(UI, ui, hist)
    /\ UNCHANGED chapters
    /\ UNCHANGED others

\* A change handler that sets the new value and leaves the status alone.
HandleChangeKeepsStatus(field, v) ==
    /\ page = "edit-chapter"
    /\ ~ed.isLoading
    /\ \/ field = "title" /\ v \in TitleValues /\ v # ed.title
       \/ field = "content" /\ v \in ContentValues /\ v # ed.content
    /\ LET new == IF field = "title" THEN [ed EXCEPT !.title = v]
                  ELSE [ed EXCEPT !.content = v]
       IN ed' = AutoSaveEffect(ed, new, FALSE)
    /\ hist' = Edited(hist)
    /\ UNCHANGED <<chapters, inflight, page, inst, retryTimeouts>>
    /\ UNCHANGED others

\* handleTitleChange / handleContentChange (src/App.tsx 3554-3562): the inputs are
\* rendered only when the page is not loading, and onChange fires on a new value.
HandleChange(field, v) ==
    /\ page = "edit-chapter"
    /\ ~ed.isLoading
    /\ \/ field = "title" /\ v \in TitleValues /\ v # ed.title
       \/ field = "content" /\ v \in ContentValues /\ v # ed.content
    /\ LET new == IF field = "title"
                  THEN [ed EXCEPT !.saveStatus = "dirty", !.title = v]
                  ELSE [ed EXCEPT !.saveStatus = "dirty", !.content = v]
       IN ed' = AutoSaveEffect(ed, new, FALSE)
    /\ hist' = Edited(hist)
    /\ UNCHANGED <<chapters, inflight, page, inst, retryTimeouts>>
    /\ UNCHANGED others

\* The write the auto-save timer callback issues (src/App.tsx 3442-3453).
AutoSaveRequest(e, i) ==
    IF e.chapterIdFromParams # 0
    THEN [op |-> "updateChapter", by |-> "auto", page |-> "edit-chapter", inst |-> i,
          id |-> e.chapterIdFromParams, title |-> e.title, content |-> e.content,
          chapterNumber |-> 0]
    ELSE [op |-> "addChapter", by |-> "auto", page |-> "edit-chapter", inst |-> i, id |-> 0,
          title |-> OrDefault(e.title, "Untitled Draft"), content |-> e.content,
          chapterNumber |-> NewChapterNumber(e.novel.chapters)]

\* The write handleSubmit issues (src/App.tsx 3485-3496). It also sends
\* isPublished: publish, a column the editor never reads back and the model leaves
\* out of the rows and the requests.
ManualRequest(e, i, publish) ==
    IF e.isEditMode /\ e.chapterIdFromParams # 0
    THEN [op |-> "updateChapter", by |-> "manual", page |-> "edit-chapter", inst |-> i,
          id |-> e.chapterIdFromParams, title |-> e.title, content |-> e.content,
          chapterNumber |-> 0]
    ELSE [op |-> "addChapter", by |-> "manual", page |-> "edit-chapter", inst |-> i, id |-> 0,
          title |-> OrDefault(e.title, "Untitled"), content |-> e.content,
          chapterNumber |-> NewChapterNumber(e.novel.chapters)]

\* The model's room for one more write request: at most MaxInflight writes in
\* flight, and no more rows created than the table may hold.
Room(r) ==
    /\ Count(inflight, IsWrite) < MaxInflight
    /\ IsCreate(r) => Len(chapters) + Count(inflight, IsCreate) < MaxChapters

\* hist after the write request r was issued.
Issued(h, r) ==
    [h EXCEPT !.burstSaves = IF "burst" \in h.watch /\ r.by = "auto" /\ @ < 2
                             THEN @ + 1 ELSE @,
              !.creates = IF "session" \in h.watch /\ IsCreate(r) /\ @ < 2
                          THEN @ + 1 ELSE @,
              !.unretried = FALSE,
              !.submitted = @ \/ ("submit" \in h.watch /\ r.by = "manual"),
              !.restarted = IF r.by = "manual" THEN FALSE ELSE @]

\* hist after a manual save that found the editor in state e.
Submitted(h, e) ==
    [h EXCEPT !.cancelled = "submit" \in h.watch /\ e.autoSaveTimeout # NoTimer]

\* The auto-save timer callback up to its await (src/App.tsx 3436-3453). The
\* callback closes over the state of the render whose effect set the timer, which
\* is the current state: every change of it reruns the effect.
AutoSaveTimerFires ==
    /\ page = "edit-chapter"
    /\ ed.autoSaveTimeout = 0
    /\ IF ~ed.novel.loaded
       THEN /\ ed' = [ed EXCEPT !.autoSaveTimeout = NoTimer]
            /\ UNCHANGED <<inflight, hist>>
       ELSE LET r == AutoSaveRequest(ed, inst)
            IN /\ Room(r)
               /\ ed' = AutoSaveEffect(ed, [ed EXCEPT !.saveStatus = "saving",
                                                      !.autoSaveTimeout = NoTimer], FALSE)
               /\ inflight' = With(inflight, r)
               /\ hist' = Issued(hist, r)
    /\ UNCHANGED <<chapters, page, inst, retryTimeouts>>
    /\ UNCHANGED others

\* What the timer callback does once its write resolved (src/App.tsx 3443-3466):
\* updateChapter's result is not looked at; a null addChapter result throws into
\* the catch, which sets 'error' and schedules the retry.
AutoSaveContinuation(ui, r, ok, newId) ==
    IF r.op = "updateChapter"
    THEN SetState(ui, r, [ui.ed EXCEPT !.saveStatus = "saved"], FALSE)
    ELSE IF ok
         THEN NavigateEditChapter(
                  SetState(ui, r, [ui.ed EXCEPT !.saveStatus = "saved"], FALSE), newId)
         ELSE IF Live(ui, r)
              THEN [SetState(ui, r, [ui.ed EXCEPT !.saveStatus = "error"], FALSE)
                        EXCEPT !.retry = Append(@, Ticks(RetryMs))]
              ELSE ui

\* hist after the service answered the write r.
Answered(h, ui0, r, ok) ==
    IF ~Live(ui0, r) THEN h
    ELSE [h EXCEPT !.failed = @ \/ (~ok /\ "burst" \in h.watch),
                   !.creates = IF ~ok /\ IsCreate(r) /\ @ > 0 THEN @ - 1 ELSE @,
                   !.unretried = IF r.by = "auto" /\ "session" \in h.watch
                                 THEN ~ok ELSE @]

\* A write of the auto-save resolves: the service accepts it (ok) or reports an
\* error, which makes ApiService.addChapter / updateChapter return null
\* (src/unnamed/part_003 217-245).
AutoSaveResolves(r, ok) ==
    /\ BagIn(r, inflight)
    /\ IsWrite(r) /\ r.by = "auto" /\ r.page = "edit-chapter"
    /\ LET ui == AutoSaveContinuation(UI, r, ok, Len(chapters) + 1)
       IN /\ ~ok /\ IsCreate(r) /\ Live(UI, r) => Len(retryTimeouts) < MaxRetryTimers
          /\ chapters' = IF ok THEN Accepted(chapters, r) ELSE chapters
          /\ Commit(ui, Without(inflight, r))
          /\ Observe(UI, ui, Answered(hist, UI, r, ok))
    /\ UNCHANGED others

\* The retry timeout of the catch fires: setSaveStatus('dirty') (src/App.tsx 3465).
RetryTimeoutFires ==
    /\ page = "edit-chapter"
    /\ Len(retryTimeouts) > 0
    /\ Head(retryTimeouts) = 0
    /\ ed' = AutoSaveEffect(ed, [ed EXCEPT !.saveStatus = "dirty"], FALSE)
    /\ retryTimeouts' = Tail(retryTimeouts)
    /\ hist' = [hist EXCEPT !.restarted = @ \/ ("submit" \in hist.watch /\ hist.submitted)]
    /\ UNCHANGED <<chapters, inflight, page, inst>>
    /\ UNCHANGED others

\* A handleSubmit that issues its write and leaves the timer and the status alone.
HandleSubmitKeepsTimer(publish) ==
    /\ page = "edit-chapter"
    /\ ~ed.isLoading
    /\ ~ed.isSubmittingManual
    /\ ed.novel.loaded
    /\ LET r == ManualRequest(ed, inst, publish)
       IN /\ Room(r)
          /\ ed' = [ed EXCEPT !.isSubmittingManual = TRUE]
          /\ inflight' = With(inflight, r)
          /\ hist' = Submitted(Issued(hist, r), ed)
    /\ UNCHANGED <<chapters, page, inst, retryTimeouts>>
    /\ UNCHANGED others

\* handleSubmit up to its await (src/App.tsx 3476-3496): the two save buttons are
\* rendered when the page is not loading and disabled while isSubmittingManual.
HandleSubmit(publish) ==
    /\ page = "edit-chapter"
    /\ ~ed.isLoading
    /\ ~ed.isSubmittingManual
    /\ IF ~ed.novel.loaded
       THEN /\ ed' = [ed EXCEPT !.autoSaveTimeout = NoTimer]
            /\ UNCHANGED <<inflight, hist>>
       ELSE LET r == ManualRequest(ed, inst, publish)
            IN /\ Room(r)
               /\ ed' = AutoSaveEffect([ed EXCEPT !.autoSaveTimeout = NoTimer],
                                       [ed EXCEPT !.autoSaveTimeout = NoTimer,
                                                  !.isSubmittingManual = TRUE,
                                                  !.saveStatus = "saving"], FALSE)
               /\ inflight' = With(inflight, r)
               /\ hist' = Submitted(Issued(hist, r), ed)
    /\ UNCHANGED <<chapters, page, inst, retryTimeouts>>
    /\ UNCHANGED others

\* What handleSubmit does once its write resolved (src/App.tsx 3497-3504): the
\* result of the write is not looked at, so it navigates to the chapter list.
\* The catch runs only if the call throws, which ApiService's writes do not.
SubmitContinuation(ui, r, ok) ==
    NavigateAway(ui, "manage-chapters")

\* The write of a manual save resolves.
HandleSubmitResolves(r, ok) ==
    /\ BagIn(r, inflight)
    /\ IsWrite(r) /\ r.by = "manual" /\ r.page = "edit-chapter"
    /\ LET ui == SubmitContinuation(UI, r, ok)
       IN /\ chapters' = IF ok THEN Accepted(chapters, r) ELSE chapters
          /\ Commit(ui, Without(inflight, r))
          /\ Observe(UI, ui, Answered(hist, UI, r, ok))
    /\ UNCHANGED others

\* The "Back to Chapters" button (src/App.tsx 3567).
BackToChapters ==
    /\ page = "edit-chapter"
    /\ ~ed.isLoading
    /\ Commit(NavigateAway(UI, "manage-chapters"), inflight)
    /\ hist' = HistOf(hist.watch)
    /\ UNCHANGED chapters
    /\ UNCHANGED others

\* One timer value a tick later.
Later(t) == IF t > 0 THEN t - 1 ELSE t

\* Time advances by one tick; a timer that is due runs first.
Tick ==
    /\ page \in Editors
    /\ ed.autoSaveTimeout # 0
    /\ \A k \in 1..Len(retryTimeouts) : retryTimeouts[k] # 0
    /\ \/ ed.autoSaveTimeout > 0
       \/ Len(retryTimeouts) > 0
       \/ "burst" \in hist.watch /\ hist.sinceEdit < TicksPerDelay
    /\ ed' = [ed EXCEPT !.autoSaveTimeout = Later(@)]
    /\ retryTimeouts' = [k \in 1..Len(retryTimeouts) |-> Later(retryTimeouts[k])]
    /\ hist' = [hist EXCEPT !.sinceEdit = IF "burst" \in hist.watch /\ @ < TicksPerDelay
                                          THEN @ + 1 ELSE @]
    /\ UNCHANGED <<chapters, inflight, page, inst>>
    /\ UNCHANGED others

\* ------------------------------------------------------------ ChapterEditorPage

\* window.setTimeout(..., 2000) of ChapterEditorPage's auto-save effect, in ms.
EditorDebounceMs == 2000

\* The useState initial values of ChapterEditorPage. chapter is the id of the
\* chapter object held, 0 for null; chapterNumber is the route's parameter, 0 for
\* 'new' (isNew).
Draft ==
    [title |-> "", content |-> "", novel |-> [loaded |-> FALSE, chapters |-> <<>>],
     chapter |-> 0, isLoading |-> TRUE, isAuthor |-> FALSE, saveStatus |-> "idle",
     chapterNumber |-> 0, autoSaveTimeout |-> NoTimer]

\* The getNovel call of the load effect; its continuation captured the route's
\* chapterNumber.
EditorLoadRequest(i, num) ==
    [op |-> "getNovel", by |-> "load", page |-> "editor", inst |-> i, id |-> 0,
     title |-> "", content |-> "", chapterNumber |-> num]

\* novelData.chapters.find(c => c.chapterNumber === chapNum): the ids of the rows
\* find may return, 0 for undefined. getNovel sorts the rows by chapterNumber only,
\* so among rows of one number the first is whichever the service listed first.
FoundChapter(tbl, num) ==
    LET rows == {k \in 1..Len(tbl) : tbl[k].chapterNumber = num}
    IN IF rows = {} THEN {0} ELSE rows

\* The auto-save effect of ChapterEditorPage after a render: when one of its
\* dependencies changed, the cleanup clears the timer, and the effect starts a new
\* one only with a loaded novel and status changed. objectSet: setNovel or
\* setChapter was called with a new object.
EditorAutoSaveEffect(old, new, objectSet) ==
    IF ~objectSet /\ old.title = new.title /\ old.content = new.content
       /\ old.saveStatus = new.saveStatus /\ old.isLoading = new.isLoading
       /\ old.chapter = new.chapter
       /\ (old.chapterNumber = 0) = (new.chapterNumber = 0)
    THEN new
    ELSE [new EXCEPT !.autoSaveTimeout =
             IF new.isLoading \/ ~new.novel.loaded \/ new.saveStatus # "changed"
             THEN NoTimer
             ELSE Ticks(EditorDebounceMs)]

\* The continuation's setState calls, followed by the auto-save effect.
SetEditorState(ui, r, new, objectSet) ==
    IF Live(ui, r) THEN [ui EXCEPT !.ed = EditorAutoSaveEffect(ui.ed, new, objectSet)] ELSE ui

\* navigate(`/editor/${novel.id}/${num}`, { replace: true }): the mounted
\* ChapterEditorPage keeps its state, and its load effect runs again for the new
\* chapterNumber without setting isLoading; from another page a new instance mounts.
NavigateEditor(ui, num) ==
    IF ui.page = "editor"
    THEN IF ui.ed.chapterNumber = num THEN ui
         ELSE [ui EXCEPT !.ed = EditorAutoSaveEffect(ui.ed, [ui.ed EXCEPT !.chapterNumber = num],
                                                     FALSE),
                         !.loads = With(ui.loads, EditorLoadRequest(ui.inst, num))]
    ELSE [ui EXCEPT !.page = "editor", !.inst = ui.inst + 1,
                    !.ed = [Draft EXCEPT !.chapterNumber = num], !.retry = <<>>,
                    !.loads = With(ui.loads, EditorLoadRequest(ui.inst + 1, num))]

\* getNovel of the load effect resolves (src/App.tsx 1355-1376). On a remote error
\* ApiService.getNovel throws, the promise has no catch and no state is set.
EditorLoadResolves(r, ok) ==
    /\ BagIn(r, inflight)
    /\ r.op = "getNovel" /\ r.page = "editor"
    /\ \E k \in FoundChapter(chapters, r.chapterNumber) :
         LET base == [ed EXCEPT !.novel = [loaded |-> TRUE,
                                           chapters |-> ChapterNumbers(chapters)],
                                !.isAuthor = TRUE, !.isLoading = FALSE]
             new == IF r.chapterNumber = 0 THEN [base EXCEPT !.saveStatus = "idle"]
                    ELSE IF k = 0 THEN base
                    ELSE [base EXCEPT !.chapter = k, !.title = chapters[k].title,
                                      !.content = chapters[k].content,
                                      !.saveStatus = "saved"]
             ui == IF ok THEN SetEditorState(UI, r, new, TRUE) ELSE UI
         IN /\ Commit(ui, Without(inflight, r))
            /\ Observe(UI, ui, hist)
    /\ UNCHANGED chapters
    /\ UNCHANGED others

\* onChange of the title input and of the content textarea (src/App.tsx 1472,
\* 1481): rendered for the author once the page has loaded.
EditorChange(field, v) ==
    /\ page = "editor"
    /\ ed.isAuthor /\ ~ed.isLoading
    /\ \/ field = "title" /\ v \in TitleValues /\ v # ed.title
       \/ field = "content" /\ v \in ContentValues /\ v # ed.content
    /\ LET new == IF field = "title"
                  THEN [ed EXCEPT !.saveStatus = "changed", !.title = v]
                  ELSE [ed EXCEPT !.saveStatus = "changed", !.content = v]
       IN ed' = EditorAutoSaveEffect(ed, new, FALSE)
    /\ hist' = Edited(hist)
    /\ UNCHANGED <<chapters, inflight, page, inst, retryTimeouts>>
    /\ UNCHANGED others

\* isNew && !chapter, or chapter: the editor has a write to make. It has none on
\* the route of a chapter number the novel does not have.
HasChapterToSave(e) == e.chapterNumber = 0 \/ e.chapter # 0

\* The write of the timer callback and of handleSaveAndExit (src/App.tsx 1389-1401,
\* 1427-1432).
EditorRequest(e, i, by) ==
    IF e.chapterNumber = 0 /\ e.chapter = 0
    THEN [op |-> "createChapter", by |-> by, page |-> "editor", inst |-> i, id |-> 0,
          title |-> OrDefault(e.title, "Untitled Chapter"), content |-> e.content,
          chapterNumber |-> NewChapterNumber(e.novel.chapters)]
    ELSE [op |-> "updateChapter", by |-> by, page |-> "editor", inst |-> i, id |-> e.chapter,
          title |-> e.title, content |-> e.content, chapterNumber |-> 0]

\* The timer callback up to its await (src/App.tsx 1386-1400): it sets 'saving'
\* and issues the write, if the editor has one to make.
EditorTimerFires ==
    /\ page = "editor"
    /\ ed.autoSaveTimeout = 0
    /\ LET saving == EditorAutoSaveEffect(ed, [ed EXCEPT !.saveStatus = "saving",
                                                         !.autoSaveTimeout = NoTimer], FALSE)
           r == EditorRequest(ed, inst, "auto")
       IN IF ~HasChapterToSave(ed)
          THEN /\ ed' = saving
               /\ UNCHANGED <<inflight, hist>>
          ELSE /\ Room(r)
               /\ ed' = saving
               /\ inflight' = With(inflight, r)
               /\ hist' = Issued(hist, r)
    /\ UNCHANGED <<chapters, page, inst, retryTimeouts>>
    /\ UNCHANGED others

\* What the timer callback does once its write resolved (src/App.tsx 1391-1406):
\* ApiService.createChapter / updateChapter throw on a remote error
\* (src/data.ts 434-453), and the catch sets 'error'.
EditorAutoSaveContinuation(ui, r, ok, newId) ==
    IF ~ok THEN SetEditorState(ui, r, [ui.ed EXCEPT !.saveStatus = "error"], FALSE)
    ELSE IF r.op = "createChapter"
         THEN NavigateEditor(
                  SetEditorState(ui, r, [ui.ed EXCEPT !.chapter = newId,
                                                      !.saveStatus = "saved"], TRUE),
                  r.chapterNumber)
         ELSE SetEditorState(ui, r, [ui.ed EXCEPT !.saveStatus = "saved"], FALSE)

\* A write of ChapterEditorPage's auto-save resolves.
EditorAutoSaveResolves(r, ok) ==
    /\ BagIn(r, inflight)
    /\ IsWrite(r) /\ r.by = "auto" /\ r.page = "editor"
    /\ LET ui == EditorAutoSaveContinuation(UI, r, ok, Len(chapters) + 1)
       IN /\ chapters' = IF ok THEN Accepted(chapters, r) ELSE chapters
          /\ Commit(ui, Without(inflight, r))
          /\ Observe(UI, ui, Answered(hist, UI, r, ok))
    /\ UNCHANGED others

\* handleSaveAndExit up to its await (src/App.tsx 1418-1432): the button is
\* rendered for the author once the page has loaded (novel is set together with
\* isAuthor) and is disabled while the status is saving. Without a write to make
\* it runs on to navigate('/dashboard').
HandleSaveAndExit ==
    /\ page = "editor"
    /\ ed.isAuthor /\ ~ed.isLoading
    /\ ed.saveStatus # "saving"
    /\ LET r == EditorRequest(ed, inst, "manual")
       IN IF ~HasChapterToSave(ed)
          THEN /\ Commit(NavigateAway(UI, "dashboard"), inflight)
               /\ hist' = HistOf(hist.watch)
          ELSE /\ Room(r)
               /\ ed' = EditorAutoSaveEffect([ed EXCEPT !.autoSaveTimeout = NoTimer],
                                             [ed EXCEPT !.autoSaveTimeout = NoTimer,
                                                        !.saveStatus = "saving"], FALSE)
               /\ inflight' = With(inflight, r)
               /\ hist' = Submitted(Issued(hist, r), ed)
               /\ UNCHANGED <<page, inst, retryTimeouts>>
    /\ UNCHANGED chapters
    /\ UNCHANGED others

\* What handleSaveAndExit does once its write resolved (src/App.tsx 1433-1438).
SaveAndExitContinuation(ui, r, ok) ==
    IF ok
    THEN NavigateAway(SetEditorState(ui, r, [ui.ed EXCEPT !.saveStatus = "saved"], FALSE),
                      "dashboard")
    ELSE SetEditorState(ui, r, [ui.ed EXCEPT !.saveStatus = "error"], FALSE)

\* The write of a Save and Exit resolves.
HandleSaveAndExitResolves(r, ok) ==
    /\ BagIn(r, inflight)
    /\ IsWrite(r) /\ r.by = "manual" /\ r.page = "editor"
    /\ LET ui == SaveAndExitContinuation(UI, r, ok)
       IN /\ chapters' = IF ok THEN Accepted(chapters, r) ELSE chapters
          /\ Commit(ui, Without(inflight, r))
          /\ Observe(UI, ui, Answered(hist, UI, r, ok))
    /\ UNCHANGED others

\* The "Back to Dashboard" link (src/App.tsx 1462).
BackToDashboard ==
    /\ page = "editor"
    /\ ed.isAuthor /\ ~ed.isLoading
    /\ Commit(NavigateAway(UI, "dashboard"), inflight)
    /\ hist' = HistOf(hist.watch)
    /\ UNCHANGED chapters
    /\ UNCHANGED others

\* ------------------------------------------------------------ specification

\* The chapter the novel already has when the editor opens.
FirstChapter ==
    [id |-> 1, title |-> "T", content |-> "a", chapterNumber |-> 1]

\* EditChapterPage was opened from the chapter list by the novel's author: the
\* new-chapter route /edit-chapter/:novelId of a novel without chapters, or the
\* route /edit-chapter/:novelId/:chapterId of the chapter of a novel that has one.
\* The first render and its effects have run: loadData awaits getNovel.
EditChapterOpened ==
    /\ chapters \in {<<>>, <<FirstChapter>>}
    /\ page = "edit-chapter"
    /\ inst = 1
    /\ LET cid == Len(chapters)
       IN /\ ed = LoadEffect(Blank, cid)
          /\ inflight = SetToBag({LoadRequest(1, cid)})
    /\ retryTimeouts = <<>>

\* ChapterEditorPage was opened from the dashboard by the novel's author, whose
\* links are /editor/:novelId/new and /editor/:novelId/:chapterNumber of a chapter
\* the novel has (src/App.tsx 1608, 1616).
EditorOpened ==
    /\ chapters \in {<<>>, <<FirstChapter>>}
    /\ page = "editor"
    /\ inst = 1
    /\ LET num == IF chapters = <<>> THEN 0 ELSE FirstChapter.chapterNumber
       IN /\ ed = [Draft EXCEPT !.chapterNumber = num]
          /\ inflight = SetToBag({EditorLoadRequest(1, num)})
    /\ retryTimeouts = <<>>

\* NovelDetailPage has not been opened: it holds its first state.
NoDetailPage ==
    /\ detail = [novel |-> [likes |-> 0, rating |-> 0], hasLiked |-> FALSE,
                 isBookmarked |-> FALSE, userRating |-> 0]
    /\ remote = [likes |-> 0, rating |-> 0, hasLiked |-> FALSE,
                 isBookmarked |-> FALSE, userRating |-> 0]

\* AdminPanelPage has not been opened, and the user's role plays no part.
NoAdminPage ==
    /\ auth = [id |-> 0, role |-> "none"]
    /\ admin = [users |-> <<>>, isLoading |-> TRUE, mounted |-> FALSE]
    /\ profiles = <<>>

\* HomePage has not been opened: it holds its first state.
NoHomePage ==
    home = [activeGenre |-> "All", sortBy |-> "createdAt", displayNovels |-> <<>>]

\* No reader and no search page has been opened, and nobody has signed in.
NoVisitor ==
    /\ reader = [novel |-> <<>>, loaded |-> FALSE, chapterId |-> 0, chapter |-> 0]
    /\ session = [user |-> 0, isAuthenticated |-> FALSE, signedIn |-> 0]
    /\ search = [query |-> <<>>, filteredNovels |-> <<>>, loading |-> TRUE]
    /\ manage = [novel |-> <<>>, loaded |-> FALSE, mounted |-> FALSE]

\* No editor has been opened.
NoEditor ==
    /\ chapters = <<>>
    /\ ed = Blank
    /\ retryTimeouts = <<>>
    /\ hist = HistOf({})

\* No page but an editor has been opened, and NovelsProvider has no list yet.
NoOtherPage ==
    /\ NoDetailPage
    /\ novels = <<>>
    /\ NoAdminPage
    /\ NoHomePage
    /\ NoVisitor

\* A session of EditChapterPage, the editor of the application as it is now.
Init ==
    /\ EditChapterOpened
    /\ NoOtherPage
    /\ hist = HistOf({"burst", "session"})

Next ==
    \/ \E r \in BagToSet(inflight), ok \in BOOLEAN : LoadDataResolves(r, ok)
    \/ \E v \in TitleValues : HandleChange("title", v)
    \/ \E v \in ContentValues : HandleChange("content", v)
    \/ AutoSaveTimerFires
    \/ \E r \in BagToSet(inflight), ok \in BOOLEAN : AutoSaveResolves(r, ok)
    \/ RetryTimeoutFires
    \/ \E publish \in BOOLEAN : HandleSubmit(publish)
    \/ \E r \in BagToSet(inflight), ok \in BOOLEAN : HandleSubmitResolves(r, ok)
    \/ BackToChapters
    \/ Tick

Spec == Init /\ [][Next]_vars

\* Bursts of edits in either editor and what the editor does of itself after
\* each: no manual save and no navigation by the user. An edit comes less than
\* 2000 ms after the one before it, or starts a burst in an editor at rest.
InitBurst ==
    /\ EditChapterOpened \/ EditorOpened
    /\ NoOtherPage
    /\ hist = HistOf({"burst"})

\* Nothing is in flight and no timer is pending.
AtRest ==
    /\ inflight = EmptyBag
    /\ ed.autoSaveTimeout = NoTimer
    /\ retryTimeouts = <<>>

BurstOpen == hist.sinceEdit < TicksPerDelay \/ AtRest

NextBurst ==
    \/ \E r \in BagToSet(inflight), ok \in BOOLEAN : LoadDataResolves(r, ok)
    \/ \E v \in TitleValues : BurstOpen /\ HandleChange("title", v)
    \/ \E v \in ContentValues : BurstOpen /\ HandleChange("content", v)
    \/ AutoSaveTimerFires
    \/ \E r \in BagToSet(inflight), ok \in BOOLEAN : AutoSaveResolves(r, ok)
    \/ RetryTimeoutFires
    \/ \E r \in BagToSet(inflight), ok \in BOOLEAN : EditorLoadResolves(r, ok)
    \/ \E v \in TitleValues : BurstOpen /\ EditorChange("title", v)
    \/ \E v \in ContentValues : BurstOpen /\ EditorChange("content", v)
    \/ EditorTimerFires
    \/ \E r \in BagToSet(inflight), ok \in BOOLEAN : EditorAutoSaveResolves(r, ok)
    \/ Tick

SpecBurst == InitBurst /\ [][NextBurst]_vars

\* Either editor with its manual save: edits of the title, the timers, the manual
\* save and the responses of the service.
InitSubmit ==
    /\ EditChapterOpened \/ EditorOpened
    /\ NoOtherPage
    /\ hist = HistOf({"submit"})

NextSubmit ==
    \/ \E r \in BagToSet(inflight), ok \in BOOLEAN : LoadDataResolves(r, ok)
    \/ \E v \in TitleValues : HandleChange("title", v)
    \/ AutoSaveTimerFires
    \/ \E r \in BagToSet(inflight), ok \in BOOLEAN : AutoSaveResolves(r, ok)
    \/ RetryTimeoutFires
    \/ \E publish \in BOOLEAN : HandleSubmit(publish)
    \/ \E r \in BagToSet(inflight), ok \in BOOLEAN : HandleSubmitResolves(r, ok)
    \/ \E r \in BagToSet(inflight), ok \in BOOLEAN : EditorLoadResolves(r, ok)
    \/ \E v \in TitleValues : EditorChange("title", v)
    \/ EditorTimerFires
    \/ \E r \in BagToSet(inflight), ok \in BOOLEAN : EditorAutoSaveResolves(r, ok)
    \/ HandleSaveAndExit
    \/ \E r \in BagToSet(inflight), ok \in BOOLEAN : HandleSaveAndExitResolves(r, ok)
    \/ Tick

SpecSubmit == InitSubmit /\ [][NextSubmit]_vars

\* ------------------------------------------------------------ properties

\* The chapter writes in flight.
WritesInFlight == Count(inflight, IsWrite)

\* C1: in every reachable state of the chapter editor at most one chapter write
\* request (create or update) is in flight.
C1_SingleWriteInFlight == WritesInFlight <= 1

\* The row of the chapter the editor edits holds the editor's title and content;
\* on the new-chapter route, which has no row yet, both are still empty.
NoUnsavedEdits ==
    IF ed.chapterIdFromParams \in 1..Len(chapters)
    THEN /\ chapters[ed.chapterIdFromParams].title = ed.title
         /\ chapters[ed.chapterIdFromParams].content = ed.content
    ELSE ed.title = "" /\ ed.content = ""

\* C2: whenever the rendered editor shows status saved or idle, its title and
\* content are what was loaded or what the last accepted write persisted. Stated
\* for the sessions in which the service has rejected no write.
C2_SavedMeansPersisted ==
    (/\ page = "edit-chapter"
     /\ ~ed.isLoading
     /\ ed.saveStatus \in {"saved", "idle"}
     /\ ~hist.failed)
        => NoUnsavedEdits

\* C3: one editing session has at most one create request that was issued and
\* has not failed, so it creates at most one chapter record.
C3_OneCreatePerSession == hist.creates <= 1

C5_OneSavePerBurst ==
    (/\ page = "edit-chapter"
     /\ hist.edited
     /\ hist.sinceEdit = TicksPerDelay
     /\ ed.autoSaveTimeout # 0
     /\ ~hist.failed
     /\ ~ed.isSubmittingManual)
        => hist.burstSaves = 1

\* C6: when the remote write of an auto-save of EditChapterPage fails, the status
\* becomes error, and not saved.
C6_FailedAutoSaveIsError ==
    [][\A r \in BagToSet(inflight) :
          (AutoSaveResolves(r, FALSE) /\ Live(UI, r)) => ed'.saveStatus = "error"]_vars

\* C7: a failed save, auto-save or manual, leaves the editor's title and content
\* as the user typed them.
C7_FailedSaveKeepsText ==
    [][\A r \in BagToSet(inflight) :
          ((AutoSaveResolves(r, FALSE) \/ HandleSubmitResolves(r, FALSE)) /\ Live(UI, r))
              => (ed'.title = ed.title /\ ed'.content = ed.content)]_vars

\* C8: after a failed auto-save and without further user input, another save
\* attempt is on its way: the retry timeout or the debounce timer is pending.
C8_FailedAutoSaveIsRetried ==
    (page = "edit-chapter" /\ hist.unretried)
        => (Len(retryTimeouts) > 0 \/ ed.autoSaveTimeout # NoTimer)

\* C10: when the remote write of a manual save fails, the editor sets status
\* error and stays on the editor page.
C10_FailedSubmitStays ==
    [][\A r \in BagToSet(inflight) :
          (HandleSubmitResolves(r, FALSE) /\ Live(UI, r))
              => (page' = "edit-chapter" /\ ed'.saveStatus = "error")]_vars

IsManual(r) == IsWrite(r) /\ r.by = "manual"

\* A step of a manual save: the handler of "Save as Draft" / "Publish", or of
\* "Save and Exit".
ManualSaveStep == (\E publish \in BOOLEAN : HandleSubmit(publish)) \/ HandleSaveAndExit

\* A step of a debounce timer callback that issues a write.
AutoSaveWriteStep == (AutoSaveTimerFires \/ EditorTimerFires) /\ inflight' # inflight

\* The step of a manual save leaves no debounce timer pending and adds exactly
\* one write, the manual one, to the requests in flight.
ManualSaveIsImmediate ==
    ManualSaveStep
        => /\ ed'.autoSaveTimeout = NoTimer
           /\ \E r \in BagToSet(inflight') : IsManual(r) /\ inflight' = With(inflight, r)

C11_NoManualSaveWhileSaving ==
    [][(\E publish \in BOOLEAN : HandleSubmit(publish))
          => (ed.saveStatus # "saving" /\ WritesInFlight = 0)]_vars

\* C12: a pending debounce timer of the editor stops being pending only by
\* firing or by a manual save (an edit restarts it, so it stays pending): no
\* other step, a response of the service or leaving the page among them,
\* cancels it.
C12_TimerCancelledOnlyByUser ==
    [][(/\ page = "edit-chapter"
        /\ ed.autoSaveTimeout # NoTimer
        /\ (page' # "edit-chapter" \/ ed'.autoSaveTimeout = NoTimer))
          => (AutoSaveTimerFires \/ \E publish \in BOOLEAN : HandleSubmit(publish))]_vars

\* ------------------------------------------------------------ EditChapterPage: formatting

\* The toolbar buttons of the content textarea.
Formats == {"bold", "italic", "underline"}

\* tagMap of applyFormat.
TagMap(format) ==
    CASE format = "bold" -> "strong"
      [] format = "italic" -> "em"
      [] format = "underline" -> "u"

\* The characters of a text the user typed: the typed values are at most one
\* character long.
Chars(text) == IF text = "" THEN <<>> ELSE <<text>>

\* The string of a sequence of characters.
RECURSIVE Join(_)
Join(cs) == IF cs = <<>> THEN "" ELSE Head(cs) \o Join(Tail(cs))

\* textarea.value.substring(from, to), for 0 <= from <= to <= length.
Substring(text, from, to) == Join(SubSeq(Chars(text), from + 1, to))

\* newContent of applyFormat for the selection start..end of the textarea.
Formatted(text, start, end, format) ==
    Substring(text, 0, start)
        \o "<" \o TagMap(format) \o ">" \o Substring(text, start, end)
        \o "</" \o TagMap(format) \o ">"
        \o Substring(text, end, Len(Chars(text)))

\* applyFormat (src/App.tsx 3507-3539) on the selection start..end of the typed
\* content: without selected text it returns and sets nothing.
ApplyFormat(format, start, end) ==
    /\ page = "edit-chapter"
    /\ ~ed.isLoading
    /\ ed.content \in ContentValues
    /\ 0 <= start /\ start <= end /\ end <= Len(Chars(ed.content))
    /\ IF Substring(ed.content, start, end) = ""
       THEN UNCHANGED <<ed, hist>>
       ELSE /\ ed' = AutoSaveEffect(ed, [ed EXCEPT
                         !.content = Formatted(ed.content, start, end, format),
                         !.saveStatus = "dirty"], FALSE)
            /\ hist' = Edited(hist)
    /\ UNCHANGED <<chapters, inflight, page, inst, retryTimeouts>>
    /\ UNCHANGED others

\* EditChapterPage with its formatting toolbar: edits of the title and the
\* content, typed or formatted, the timers and the responses of the service. The
\* user edits while no call is in flight.
InitEdit ==
    /\ EditChapterOpened
    /\ NoOtherPage
    /\ hist = HistOf({})

NextEdit ==
    \/ \E r \in BagToSet(inflight), ok \in BOOLEAN : LoadDataResolves(r, ok)
    \/ \E v \in TitleValues : inflight = EmptyBag /\ HandleChange("title", v)
    \/ \E v \in ContentValues : inflight = EmptyBag /\ HandleChange("content", v)
    \/ \E format \in Formats, start \in 0..1, end \in 0..1 :
           inflight = EmptyBag /\ ApplyFormat(format, start, end)
    \/ AutoSaveTimerFires
    \/ \E r \in BagToSet(inflight), ok \in BOOLEAN : AutoSaveResolves(r, ok)
    \/ RetryTimeoutFires
    \/ Tick

SpecEdit == InitEdit /\ [][NextEdit]_vars

\* A step of an edit: typing in the title or the content, or formatting a
\* selection of the content.
EditStep ==
    \/ \E v \in TitleValues : HandleChange("title", v)
    \/ \E v \in ContentValues : HandleChange("content", v)
    \/ /\ \E format \in Formats, start \in 0..1, end \in 0..1 : ApplyFormat(format, start, end)
       /\ ed'.content # ed.content

\* C13: an edit of the title or the content, typed or made by formatting a
\* selection, in status idle, saved or error sets the status dirty and starts
\* the debounce timer with its full 2000 ms.
C13_EditStartsDebounce ==
    [][(EditStep /\ ed.saveStatus \in {"idle", "saved", "error"})
          => (ed'.saveStatus = "dirty" /\ ed'.autoSaveTimeout = Ticks(DebounceMs))]_vars

\* C13's case: after a failed auto-save (its retry is still pending) the user
\* formatted the content, and the editor is dirty with a full timer.
C13_Witness ==
    /\ page = "edit-chapter"
    /\ Len(retryTimeouts) > 0
    /\ ed.content \notin ContentValues
    /\ ed.saveStatus = "dirty"
    /\ ed.autoSaveTimeout = Ticks(DebounceMs)

\* ------------------------------------------- NovelDetailPage (later application)

\* userRating of a reader who has not rated: null, which getUserInteractionStatus
\* also returns for a stored rating of 0 (data?.rating || null).
NoRating == 0

\* The stars of InteractiveRating the reader clicks: the lowest and the highest.
Stars == {1, 5}

\* The novel of the page as a row of the shared list.
ListedNovel(n) ==
    [id |-> 1, genre |-> "Fantasy", createdAt |-> 1, views |-> 0,
     likes |-> n.likes, rating |-> n.rating]

\* updateNovelInList (src/App.tsx 1864-1870): the novel with that id takes the
\* fields of updatedData, the order of the list is kept.
UpdateNovelInList(list, novelId, updatedData) ==
    [k \in 1..Len(list) |->
        IF list[k].id = novelId
        THEN [f \in DOMAIN list[k] |->
                 IF f \in DOMAIN updatedData THEN updatedData[f] ELSE list[k][f]]
        ELSE list[k]]

\* A call of the page, with its argument and what the handler's closure holds of
\* the render the reader clicked in: isBookmarked for a bookmark call, hasLiked
\* and novel.likes for a like call, userRating (oldUserRating) for submitRating.
DetailRequest(kind, arg, held) ==
    [kind |-> kind, page |-> "novel-detail", inst |-> inst, arg |-> arg, held |-> held]

\* The buttons of the page are rendered: a signed-in reader who is not the author
\* looks at the novel, loaded.
DetailShown == page = "novel-detail"

\* handleToggleBookmark (src/App.tsx 2405-2416).
HandleToggleBookmark ==
    /\ DetailShown
    /\ BagCardinality(inflight) < MaxInflight
    /\ LET newBookmarkState == ~detail.isBookmarked
       IN /\ detail' = [detail EXCEPT !.isBookmarked = newBookmarkState]
          /\ inflight' = With(inflight,
                 DetailRequest(IF newBookmarkState THEN "addBookmark" ELSE "removeBookmark",
                               newBookmarkState, [isBookmarked |-> detail.isBookmarked]))
    /\ UNCHANGED <<page, inst, novels, remote>>
    /\ UNCHANGED <<editors, accounts, home, visitors>>

\* addBookmark / removeBookmark answer (src/unnamed/part_003 301-311): the row is
\* inserted or deleted, or the call reports { success: false }; the handler does
\* not read the answer.
BookmarkResolves(r, ok) ==
    /\ BagIn(r, inflight)
    /\ r.kind \in {"addBookmark", "removeBookmark"}
    /\ inflight' = Without(inflight, r)
    /\ remote' = IF ok THEN [remote EXCEPT !.isBookmarked = r.arg] ELSE remote
    /\ UNCHANGED <<page, inst, detail, novels>>
    /\ UNCHANGED <<editors, accounts, home, visitors>>

\* handleLikeToggle (src/App.tsx 2418-2434).
HandleLikeToggle ==
    /\ DetailShown
    /\ BagCardinality(inflight) < MaxInflight
    /\ LET newLikedState == ~detail.hasLiked
           newLikesCount == detail.novel.likes + (IF newLikedState THEN 1 ELSE -1)
       IN /\ detail' = [detail EXCEPT !.hasLiked = newLikedState,
                                      !.novel.likes = newLikesCount]
          /\ novels' = UpdateNovelInList(novels, 1, [likes |-> newLikesCount])
          /\ inflight' = With(inflight,
                 DetailRequest(IF newLikedState THEN "likeNovel" ELSE "unlikeNovel",
                               newLikedState,
                               [hasLiked |-> detail.hasLiked, likes |-> detail.novel.likes]))
    /\ UNCHANGED <<page, inst, remote>>
    /\ UNCHANGED <<editors, accounts, home, visitors>>

\* rpc toggle_like: the reader's like is set to the status asked for and the
\* novel's count follows it.
ToggleLike(db, status) ==
    [db EXCEPT !.hasLiked = status,
               !.likes = IF status = db.hasLiked THEN @
                         ELSE IF status THEN @ + 1 ELSE @ - 1]

\* likeNovel / unlikeNovel answer (src/unnamed/part_003 320-330); the handler does
\* not read the answer.
LikeResolves(r, ok) ==
    /\ BagIn(r, inflight)
    /\ r.kind \in {"likeNovel", "unlikeNovel"}
    /\ inflight' = Without(inflight, r)
    /\ remote' = IF ok THEN ToggleLike(remote, r.arg) ELSE remote
    /\ UNCHANGED <<page, inst, detail, novels>>
    /\ UNCHANGED <<editors, accounts, home, visitors>>

\* handleRatingSubmit (src/App.tsx 2436-2441): up to the await of submitRating.
HandleRatingSubmit(rating) ==
    /\ DetailShown
    /\ BagCardinality(inflight) < MaxInflight
    /\ rating \in Stars
    /\ detail' = [detail EXCEPT !.userRating = rating]
    /\ inflight' = With(inflight, DetailRequest("submitRating", rating, [oldUserRating |-> detail.userRating]))
    /\ UNCHANGED <<page, inst, novels, remote>>
    /\ UNCHANGED <<editors, accounts, home, visitors>>

\* An answer of submitRating whose failure leaves the rating the reader clicked.
SubmitRatingKeepsRating(r, ok) ==
    /\ BagIn(r, inflight)
    /\ r.kind = "submitRating"
    /\ IF ok
       THEN /\ \E average \in Stars :
                   remote' = [remote EXCEPT !.userRating = r.arg, !.rating = average]
            /\ inflight' = With(Without(inflight, r), [r EXCEPT !.kind = "getNovel"])
            /\ UNCHANGED hist
       ELSE /\ inflight' = Without(inflight, r)
            /\ hist' = [hist EXCEPT !.failed = TRUE]
            /\ UNCHANGED remote
    /\ UNCHANGED <<page, inst, detail, novels, chapters, ed, retryTimeouts, accounts, home, visitors>>

\* submitRating answers (src/unnamed/part_003 332-336, src/App.tsx 2441-2452): on
\* success the rating is stored, the database's trigger sets the novel's average
\* to some value, and the handler awaits getNovel; on failure it puts back the
\* userRating of the render the reader clicked in.
SubmitRatingResolves(r, ok) ==
    /\ BagIn(r, inflight)
    /\ r.kind = "submitRating"
    /\ IF ok
       THEN /\ \E average \in Stars :
                   remote' = [remote EXCEPT !.userRating = r.arg, !.rating = average]
            /\ inflight' = With(Without(inflight, r), [r EXCEPT !.kind = "getNovel"])
            /\ UNCHANGED <<detail, hist>>
       ELSE /\ detail' = IF Live(UI, r) THEN [detail EXCEPT !.userRating = r.held.oldUserRating]
                         ELSE detail
            /\ inflight' = Without(inflight, r)
            /\ hist' = [hist EXCEPT !.failed = TRUE]
            /\ UNCHANGED remote
    /\ UNCHANGED <<page, inst, novels, chapters, ed, retryTimeouts, accounts, home, visitors>>

\* getNovel answers handleRatingSubmit (src/App.tsx 2444-2449): the novel read
\* replaces the page's and its rating goes to the shared list; nothing on null.
RatingRefetchResolves(r, ok) ==
    /\ BagIn(r, inflight)
    /\ r.kind = "getNovel"
    /\ inflight' = Without(inflight, r)
    /\ IF ok
       THEN /\ detail' = IF Live(UI, r)
                         THEN [detail EXCEPT !.novel = [likes |-> remote.likes,
                                                        rating |-> remote.rating]]
                         ELSE detail
            /\ novels' = UpdateNovelInList(novels, 1, [rating |-> remote.rating])
       ELSE UNCHANGED <<detail, novels>>
    /\ UNCHANGED <<page, inst, remote>>
    /\ UNCHANGED <<editors, accounts, home, visitors>>

\* The reader leaves the page for the home page.
LeaveDetail ==
    /\ DetailShown
    /\ page' = "home"
    /\ UNCHANGED <<inst, inflight, detail, novels, remote>>
    /\ UNCHANGED <<editors, accounts, home, visitors>>

\* NovelDetailPage of a novel, opened by a signed-in reader who is not its author;
\* loadData (src/App.tsx 2362-2403) has set the novel and the reader's bookmark,
\* like and rating as the database has them.
DetailOpened ==
    /\ page = "novel-detail"
    /\ inst = 1
    /\ inflight = EmptyBag
    /\ \E liked \in BOOLEAN, marked \in BOOLEAN, rated \in Stars \cup {NoRating},
          average \in Stars :
          /\ remote = [likes |-> 1, rating |-> average, hasLiked |-> liked,
                       isBookmarked |-> marked, userRating |-> rated]
          /\ detail = [novel |-> [likes |-> 1, rating |-> average], hasLiked |-> liked,
                       isBookmarked |-> marked, userRating |-> rated]
          /\ novels = <<ListedNovel(detail.novel)>>
    /\ chapters = <<>>
    /\ ed = Blank
    /\ retryTimeouts = <<>>
    /\ NoAdminPage
    /\ NoHomePage
    /\ NoVisitor

InitDetail ==
    /\ DetailOpened
    /\ hist = HistOf({})

\* The reader toggles the bookmark and the like.
NextDetail ==
    \/ HandleToggleBookmark
    \/ \E r \in BagToSet(inflight), ok \in BOOLEAN : BookmarkResolves(r, ok)
    \/ HandleLikeToggle
    \/ \E r \in BagToSet(inflight), ok \in BOOLEAN : LikeResolves(r, ok)
    \/ LeaveDetail

SpecDetail == InitDetail /\ [][NextDetail]_vars

\* The reader rates the novel.
NextRating ==
    \/ \E rating \in Stars : HandleRatingSubmit(rating)
    \/ \E r \in BagToSet(inflight), ok \in BOOLEAN : SubmitRatingResolves(r, ok)
    \/ \E r \in BagToSet(inflight), ok \in BOOLEAN : RatingRefetchResolves(r, ok)
    \/ LeaveDetail

InitRating ==
    /\ DetailOpened
    /\ hist = HistOf({"rating"})

SpecRating == InitRating /\ [][NextRating]_vars

\* An answer of the call r that reached the mounted page reported a failure.
FailedAnswer(r, kinds) ==
    /\ BagIn(r, inflight)
    /\ r.kind \in kinds
    /\ Live(UI, r)
    /\ inflight' = Without(inflight, r)
    /\ remote' = remote

\* C14: when the call of a like or an unlike fails, hasLiked and the like count,
\* on the page and in the shared list, are afterwards what they were before the
\* reader's click.
C14_FailedLikeIsRolledBack ==
    [][\A r \in BagToSet(inflight) :
          (FailedAnswer(r, {"likeNovel", "unlikeNovel"}) /\ LikeResolves(r, FALSE))
             => /\ detail'.hasLiked = r.held.hasLiked
                /\ detail'.novel.likes = r.held.likes
                /\ novels'[1].likes = r.held.likes]_vars

\* C15: when the call of addBookmark or removeBookmark fails, isBookmarked is
\* afterwards what it was before the reader's click, and no call is issued again.
C15_FailedBookmarkIsRolledBack ==
    [][\A r \in BagToSet(inflight) :
          (FailedAnswer(r, {"addBookmark", "removeBookmark"}) /\ BookmarkResolves(r, FALSE))
             => detail'.isBookmarked = r.held.isBookmarked]_vars

\* C16: when submitRating fails, the rating shown is afterwards the one shown
\* before the reader's click, the novel of the page and the shared list are as
\* they were, and no call is issued again.
C16_FailedRatingIsRolledBack ==
    [][\A r \in BagToSet(inflight) :
          (FailedAnswer(r, {"submitRating"}) /\ SubmitRatingResolves(r, FALSE))
             => /\ detail'.userRating = r.held.oldUserRating
                /\ detail'.novel = detail.novel
                /\ novels' = novels]_vars

\* A failed submitRating has been answered on the page while a rating clicked
\* after it was stored: the page shows no rating of a reader who has one.
C16_Witness ==
    /\ page = "novel-detail"
    /\ hist.failed
    /\ inflight = EmptyBag
    /\ detail.userRating = NoRating
    /\ remote.userRating \in Stars

\* ------------------------------------------------ roles and AdminPanelPage

\* UserRole (src/unnamed/part_000 69-74).
Roles == {"USER", "AUTHOR", "ADMIN", "OWNER"}

\* The profiles: every pair of an actor and a target is two of them or one.
UserIds == {1, 2}

\* useAuth().user of a visitor who is not signed in: null.
NoUser == [id |-> 0, role |-> "none"]

\* A canChangeRole that lets an ADMIN change every user but the ADMIN.
CanChangeRoleOfAll(currentUser, targetUser) ==
    IF currentUser = NoUser THEN FALSE
    ELSE IF currentUser.id = targetUser.id THEN FALSE
    ELSE currentUser.role = "OWNER" \/ currentUser.role = "ADMIN"

\* canChangeRole (src/App.tsx 3655-3672).
CanChangeRole(currentUser, targetUser) ==
    IF currentUser = NoUser THEN FALSE
    ELSE IF currentUser.id = targetUser.id THEN FALSE
    ELSE IF currentUser.role = "OWNER" THEN TRUE
    ELSE IF currentUser.role = "ADMIN"
         THEN IF targetUser.role = "OWNER" \/ targetUser.role = "ADMIN" THEN FALSE
              ELSE TRUE
    ELSE FALSE

\* The row of AdminPanelPage's table for the user with that id.
Row(id) == [id |-> id, role |-> admin.users[id]]

\* A call of ApiService.updateUser with a role, with what the handler holds: the
\* users of the render the handler ran in (originalUsers); by is the signed-in
\* user who made the call.
UpdateUserRequest(from, targetUserId, newRole) ==
    [kind |-> "updateUser", page |-> from, inst |-> inst, by |-> auth.id,
     target |-> targetUserId, role |-> newRole, originalUsers |-> admin.users]

\* The effect of AdminPanelPage after its first render (src/App.tsx 3620-3640): a
\* visitor or a user who is neither ADMIN nor OWNER is sent to the home page,
\* otherwise fetchUsers awaits getUsers.
AdminPanelEffect ==
    /\ page = "admin-panel"
    /\ ~admin.mounted
    /\ IF auth = NoUser \/ (auth.role # "ADMIN" /\ auth.role # "OWNER")
       THEN /\ page' = "home"
            /\ UNCHANGED <<admin, inflight>>
       ELSE /\ admin' = [admin EXCEPT !.mounted = TRUE, !.isLoading = TRUE]
            /\ inflight' = With(inflight, [kind |-> "getUsers", page |-> page, inst |-> inst])
            /\ UNCHANGED page
    /\ UNCHANGED <<inst, auth, profiles>>
    /\ UNCHANGED <<editors, readers, home, visitors>>

\* getUsers answers fetchUsers (src/unnamed/part_003 43-51, src/App.tsx 3628-3636):
\* the profiles, or none of them on an error.
GetUsersResolves(r, ok) ==
    /\ BagIn(r, inflight)
    /\ r.kind = "getUsers"
    /\ inflight' = Without(inflight, r)
    /\ admin' = IF Live(UI, r)
                THEN [admin EXCEPT !.users = IF ok THEN profiles ELSE <<>>,
                                   !.isLoading = FALSE]
                ELSE admin
    /\ UNCHANGED <<page, inst, auth, profiles>>
    /\ UNCHANGED <<editors, readers, home, visitors>>

\* handleRoleChange (src/App.tsx 3642-3648), called by the Select of a row, which
\* is disabled unless canChangeRole(user) (src/App.tsx 3697-3701): up to the await
\* of ApiService.updateUser.
HandleRoleChange(targetUserId, newRole) ==
    /\ page = "admin-panel"
    /\ ~admin.isLoading
    /\ targetUserId \in DOMAIN admin.users
    /\ CanChangeRole(auth, Row(targetUserId))
    /\ newRole \in Roles \ {admin.users[targetUserId]}
    /\ BagCardinality(inflight) < MaxInflight
    /\ admin' = [admin EXCEPT !.users = [k \in DOMAIN admin.users |->
                                            IF k = targetUserId THEN newRole
                                            ELSE admin.users[k]]]
    /\ inflight' = With(inflight, UpdateUserRequest(page, targetUserId, newRole))
    /\ UNCHANGED <<page, inst, auth, profiles>>
    /\ UNCHANGED <<editors, readers, home, visitors>>

\* What ApiService.updateUser (src/data.ts 218-231) does with the role: the row of
\* the profile is updated and returned ("user"), or the remote error is thrown
\* ("throw"); it returns null ("null") only when there is no client.
UpdateUserAnswers == {"user", "throw"}

\* ApiService.updateUser answers handleRoleChange (src/App.tsx 3648-3652): a user
\* ends the handler, null reverts the users to originalUsers, and an error thrown
\* by the await ends the handler where it is.
RoleChangeResolves(r, answer) ==
    /\ BagIn(r, inflight)
    /\ r.kind = "updateUser"
    /\ r.page = "admin-panel"
    /\ inflight' = Without(inflight, r)
    /\ profiles' = IF answer = "user" THEN [profiles EXCEPT ![r.target] = r.role]
                   ELSE profiles
    /\ admin' = IF answer = "null" /\ Live(UI, r)
                THEN [admin EXCEPT !.users = r.originalUsers]
                ELSE admin
    /\ UNCHANGED <<page, inst, auth>>
    /\ UNCHANGED <<editors, readers, home, visitors>>

\* ------------------------------------- ProfilePage of the earlier application

\* handleBecomeAuthor (src/App.tsx 1045-1052) with updateUser of the App component
\* (src/App.tsx 1729-1740): the button is on the user's own profile while the
\* role is USER; the update of the user's own profile carries role AUTHOR.
HandleBecomeAuthor ==
    /\ page = "profile"
    /\ auth # NoUser
    /\ auth.role = "USER"
    /\ BagCardinality(inflight) < MaxInflight
    /\ inflight' = With(inflight, UpdateUserRequest(page, auth.id, "AUTHOR"))
    /\ UNCHANGED <<page, inst, auth, admin, profiles>>
    /\ UNCHANGED <<editors, readers, home, visitors>>

\* ApiService.updateUser answers updateUser of the App component (src/App.tsx
\* 1740-1748): the user of the context becomes the updated user; an error is
\* caught and logged.
BecomeAuthorResolves(r, answer) ==
    /\ BagIn(r, inflight)
    /\ r.kind = "updateUser"
    /\ r.page = "profile"
    /\ inflight' = Without(inflight, r)
    /\ profiles' = IF answer = "user" THEN [profiles EXCEPT ![r.target] = r.role]
                   ELSE profiles
    /\ auth' = IF answer = "user" /\ auth.id = r.target
               THEN [auth EXCEPT !.role = profiles'[r.target]]
               ELSE auth
    /\ UNCHANGED <<page, inst, admin>>
    /\ UNCHANGED <<editors, readers, home, visitors>>

\* A visitor, or a user signed in with the role of the profile, has opened the
\* admin panel (/admin-panel, first render done) or, in the earlier application,
\* the user's own profile page.
InitRoles ==
    /\ page \in {"admin-panel", "profile"}
    /\ inst = 1
    /\ inflight = EmptyBag
    /\ profiles \in [UserIds -> Roles]
    /\ auth \in {NoUser} \cup {[id |-> u, role |-> profiles[u]] : u \in UserIds}
    /\ page = "profile" => auth # NoUser
    /\ admin = [users |-> <<>>, isLoading |-> TRUE, mounted |-> FALSE]
    /\ NoEditor
    /\ NoDetailPage
    /\ novels = <<>>
    /\ NoHomePage
    /\ NoVisitor

NextRoles ==
    \/ AdminPanelEffect
    \/ \E r \in BagToSet(inflight), ok \in BOOLEAN : GetUsersResolves(r, ok)
    \/ \E targetUserId \in UserIds, newRole \in Roles : HandleRoleChange(targetUserId, newRole)
    \/ \E r \in BagToSet(inflight), answer \in UpdateUserAnswers : RoleChangeResolves(r, answer)
    \/ HandleBecomeAuthor
    \/ \E r \in BagToSet(inflight), answer \in UpdateUserAnswers : BecomeAuthorResolves(r, answer)

SpecRoles == InitRoles /\ [][NextRoles]_vars

\* C17: when the remote update of a role change made in the admin panel fails,
\* the role shown for the target user is afterwards the one shown before the
\* change.
C17_FailedRoleChangeIsReverted ==
    [][\A r \in BagToSet(inflight) :
          (/\ r.kind = "updateUser"
           /\ r.page = "admin-panel"
           /\ Live(UI, r)
           /\ RoleChangeResolves(r, "throw"))
             => admin'.users[r.target] = r.originalUsers[r.target]]_vars

\* C18: canChangeRole is true exactly when the actor is signed in, is not the
\* target, and is OWNER, or is ADMIN with a target that is USER or AUTHOR; so it
\* is false for a USER or AUTHOR actor, for a missing actor and for an ADMIN
\* whose target is ADMIN or OWNER.
C18_CanChangeRoleTable ==
    \A t \in UserIds, role \in Roles :
       LET target == [id |-> t, role |-> role]
       IN /\ CanChangeRole(auth, target)
               <=> /\ auth # NoUser
                   /\ auth.id # t
                   /\ \/ auth.role = "OWNER"
                      \/ auth.role = "ADMIN" /\ role \in {"USER", "AUTHOR"}
          /\ auth.role \in {"USER", "AUTHOR"} => ~CanChangeRole(auth, target)
          /\ auth = NoUser => ~CanChangeRole(auth, target)
          /\ (auth.role = "ADMIN" /\ role \in {"ADMIN", "OWNER"})
                => ~CanChangeRole(auth, target)

\* An ADMIN has made a USER an ADMIN in the panel: the Select of that row, enabled
\* before the change, is disabled now.
C18_Witness ==
    /\ page = "admin-panel"
    /\ ~admin.isLoading
    /\ auth.role = "ADMIN"
    /\ \E r \in BagToSet(inflight) :
          /\ r.kind = "updateUser"
          /\ r.originalUsers[r.target] = "USER"
          /\ CanChangeRole(auth, [id |-> r.target, role |-> "USER"])
          /\ admin.users[r.target] = "ADMIN"
          /\ ~CanChangeRole(auth, Row(r.target))

\* C19: no update of a role is requested for the user who requests it.
C19_NoOwnRoleChange ==
    \A r \in BagToSet(inflight) : r.kind = "updateUser" => r.target # r.by

\* ------------------------------------------------------------------- HomePage

\* Novels in the list that getNovels returned.
MaxNovels == 3

\* The genre buttons of the page ("All" and two of GENRES) and the sort keys of
\* its select; the later application has no option "views".
GenreButtons == {"All", "Fantasy", "Romance"}
SortKeys == {"createdAt", "views", "rating"}

\* createdAt of a novel is a day; a rating and a number of views are one of two values.
KeyValues == {1, 2}

\* The novels a list can hold at place k: the id is the place in the list.
NovelsAt(k) ==
    { [id |-> k, genre |-> g, createdAt |-> c, views |-> v, likes |-> 0, rating |-> r] :
         g \in GenreButtons \ {"All"}, c \in KeyValues, v \in KeyValues, r \in KeyValues }

\* The lists getNovels can return.
RECURSIVE NovelLists(_)
NovelLists(n) ==
    IF n = 0 THEN {<<>>}
    ELSE LET shorter == NovelLists(n - 1)
         IN shorter \cup { Append(l, x) : l \in {s \in shorter : Len(s) = n - 1},
                                           x \in NovelsAt(n) }

\* new Date(createdAt).getTime(): the milliseconds of the day.
GetTime(createdAt) == createdAt * 86400000

\* A comparator that puts the smaller key first.
CompareAscending(sortBy, a, b) ==
    CASE sortBy = "views" -> a.views - b.views
      [] sortBy = "rating" -> a.rating - b.rating
      [] OTHER -> GetTime(a.createdAt) - GetTime(b.createdAt)

\* The comparator given to sort (src/App.tsx 422-429, 2258-2264).
Compare(sortBy, a, b) ==
    CASE sortBy = "views" -> b.views - a.views
      [] sortBy = "rating" -> b.rating - a.rating
      [] OTHER -> GetTime(b.createdAt) - GetTime(a.createdAt)

\* Array.prototype.sort with a comparator: x goes before the first element that
\* the comparator puts after it, so elements that compare equal keep their order.
RECURSIVE InsertSorted(_, _, _)
InsertSorted(sorted, x, sortBy) ==
    IF sorted = <<>> THEN <<x>>
    ELSE IF Compare(sortBy, Head(sorted), x) > 0
         THEN <<x>> \o sorted
         ELSE <<Head(sorted)>> \o InsertSorted(Tail(sorted), x, sortBy)

RECURSIVE Sort(_, _)
Sort(list, sortBy) ==
    IF list = <<>> THEN <<>>
    ELSE InsertSorted(Sort(SubSeq(list, 1, Len(list) - 1), sortBy), list[Len(list)], sortBy)

\* Array.prototype.filter(n => n.genre === activeGenre).
FilterGenre(list, activeGenre) ==
    LET Matches(n) == n.genre = activeGenre
    IN SelectSeq(list, Matches)

\* The filter/sort effect (src/App.tsx 414-431, 2253-2269): a copy of novels,
\* filtered unless the genre is "All", sorted, becomes displayNovels.
ProcessedNovels(list, activeGenre, sortBy) ==
    LET copy == list
        processedNovels == IF activeGenre # "All" THEN FilterGenre(copy, activeGenre)
                           ELSE copy
    IN Sort(processedNovels, sortBy)

\* setActiveGenre(genre) of a genre button, then the effect.
SetActiveGenre(genre) ==
    /\ page = "home"
    /\ genre \in GenreButtons
    /\ genre # home.activeGenre
    /\ home' = [home EXCEPT !.activeGenre = genre,
                            !.displayNovels = ProcessedNovels(novels, genre, home.sortBy)]
    /\ UNCHANGED <<page, inst, inflight, novels, detail, remote>>
    /\ UNCHANGED <<editors, accounts, visitors>>

\* setSortBy(e.target.value) of the select, then the effect.
SetSortBy(sortBy) ==
    /\ page = "home"
    /\ sortBy \in SortKeys
    /\ sortBy # home.sortBy
    /\ home' = [home EXCEPT !.sortBy = sortBy,
                            !.displayNovels = ProcessedNovels(novels, home.activeGenre, sortBy)]
    /\ UNCHANGED <<page, inst, inflight, novels, detail, remote>>
    /\ UNCHANGED <<editors, accounts, visitors>>

\* HomePage with the list of novels fetched: the effect has run for the first
\* genre and sort key.
InitHome ==
    /\ page = "home"
    /\ inst = 1
    /\ inflight = EmptyBag
    /\ novels \in NovelLists(MaxNovels)
    /\ home = [activeGenre |-> "All", sortBy |-> "createdAt",
               displayNovels |-> ProcessedNovels(novels, "All", "createdAt")]
    /\ NoEditor
    /\ NoDetailPage
    /\ NoAdminPage
    /\ NoVisitor

NextHome ==
    \/ \E genre \in GenreButtons : SetActiveGenre(genre)
    \/ \E sortBy \in SortKeys : SetSortBy(sortBy)

SpecHome == InitHome /\ [][NextHome]_vars

\* The key of a novel the list is sorted by.
SortKeyOf(n, sortBy) ==
    CASE sortBy = "views" -> n.views
      [] sortBy = "rating" -> n.rating
      [] sortBy = "createdAt" -> n.createdAt

\* The displayed list holds exactly the novels of the genre, each once, in
\* descending order of the key, novels with equal keys in the order of the
\* fetched list.
DisplayedIsFilteredSorted ==
    LET shown == home.displayNovels
        Wanted(n) == home.activeGenre = "All" \/ n.genre = home.activeGenre
    IN /\ \A k \in 1..Len(novels) :
             Cardinality({i \in 1..Len(shown) : shown[i] = novels[k]})
                = (IF Wanted(novels[k]) THEN 1 ELSE 0)
       /\ \A i \in 1..Len(shown) : \E k \in 1..Len(novels) : shown[i] = novels[k]
       /\ \A i, j \in 1..Len(shown) :
             i < j => \/ SortKeyOf(shown[i], home.sortBy) > SortKeyOf(shown[j], home.sortBy)
                      \/ /\ SortKeyOf(shown[i], home.sortBy) = SortKeyOf(shown[j], home.sortBy)
                         /\ shown[i].id < shown[j].id

\* C20: after every step of the home page (the choice of a genre or of a sort
\* key, each followed by the effect) the displayed list is the
\* fetched novels of that genre (all of them for "All") in descending order of
\* the key, ties in the order of the fetched list, and the fetched list is as it
\* was.
C20_DisplayedIsFilteredSorted ==
    [][novels' = novels /\ DisplayedIsFilteredSorted']_vars

\* A genre is chosen and the list is shown by rating: a fetched novel is left
\* out, and two novels of equal rating are shown in the order of the fetched
\* list, the older one first.
C20_Witness ==
    /\ page = "home"
    /\ home.sortBy = "rating"
    /\ home.activeGenre # "All"
    /\ Len(home.displayNovels) < Len(novels)
    /\ \E i, j \in 1..Len(home.displayNovels) :
          /\ i < j
          /\ home.displayNovels[i].rating = home.displayNovels[j].rating
          /\ home.displayNovels[i].id < home.displayNovels[j].id
          /\ home.displayNovels[i].createdAt < home.displayNovels[j].createdAt

\* C28: a role change made in the admin panel by an ADMIN never asks for the
\* role OWNER, and so never makes a user who was not an OWNER one.
C28_AdminNeverGrantsOwner ==
    [][\A r \in BagToSet(inflight') :
          (r.kind = "updateUser" /\ r.page = "admin-panel" /\ auth.role = "ADMIN")
             => r.role # "OWNER"]_vars

\* C27: when two ratings were submitted one after the other, the first still in
\* flight, and both calls have resolved, the rating shown is the rating the
\* database holds for the reader: that of the last submission it accepted, or
\* the one from before the first click when it accepted neither.
C27_RatingShownIsRatingStored ==
    (/\ page = "novel-detail"
     /\ inflight = EmptyBag)
        => detail.userRating = remote.userRating

\* A call of one of the kinds is in flight.
InFlightOf(kinds) == \E r \in BagToSet(inflight) : r.kind \in kinds

Bookmarks == {"addBookmark", "removeBookmark"}
Likes == {"likeNovel", "unlikeNovel"}
Ratings == {"submitRating", "getNovel"}

\* The reader makes mutations of different kinds, one of each kind at a time.
NextPair ==
    \/ ~InFlightOf(Bookmarks) /\ HandleToggleBookmark
    \/ \E r \in BagToSet(inflight), ok \in BOOLEAN : BookmarkResolves(r, ok)
    \/ ~InFlightOf(Likes) /\ HandleLikeToggle
    \/ \E r \in BagToSet(inflight), ok \in BOOLEAN : LikeResolves(r, ok)
    \/ \E rating \in Stars : ~InFlightOf(Ratings) /\ HandleRatingSubmit(rating)
    \/ \E r \in BagToSet(inflight), ok \in BOOLEAN : SubmitRatingResolves(r, ok)
    \/ \E r \in BagToSet(inflight), ok \in BOOLEAN : RatingRefetchResolves(r, ok)

SpecPair == InitDetail /\ [][NextPair]_vars

\* C22: of two mutations of different kinds in flight together, the completion
\* of one leaves the values of the other as they are shown: the answers of a
\* rating leave hasLiked, the like count and isBookmarked, the answer of a like
\* leaves isBookmarked and userRating, the answer of a bookmark leaves hasLiked,
\* the like count and userRating.
C22_CompletionsAreIndependent ==
    [][\A r \in BagToSet(inflight), ok \in BOOLEAN :
          /\ ((SubmitRatingResolves(r, ok) \/ RatingRefetchResolves(r, ok))
                 /\ (InFlightOf(Likes) \/ InFlightOf(Bookmarks)))
               => /\ detail'.hasLiked = detail.hasLiked
                  /\ detail'.novel.likes = detail.novel.likes
                  /\ detail'.isBookmarked = detail.isBookmarked
          /\ (LikeResolves(r, ok) /\ (InFlightOf(Ratings) \/ InFlightOf(Bookmarks)))
               => /\ detail'.isBookmarked = detail.isBookmarked
                  /\ detail'.userRating = detail.userRating
          /\ (BookmarkResolves(r, ok) /\ (InFlightOf(Ratings) \/ InFlightOf(Likes)))
               => /\ detail'.hasLiked = detail.hasLiked
                  /\ detail'.novel.likes = detail.novel.likes
                  /\ detail'.userRating = detail.userRating]_vars

\* C26: once the editor has loaded its novel, a step of the mounted editor that
\* is not an edit of the user (typing or formatting) leaves the title and the
\* content of the editor as they are; so does every successful save, the first
\* create of a new chapter included.
C26_SavesKeepTitleAndContent ==
    [][(/\ page = "edit-chapter"
        /\ page' = "edit-chapter"
        /\ inst' = inst
        /\ ed.novel.loaded
        /\ ~EditStep)
          => (ed'.title = ed.title /\ ed'.content = ed.content)]_vars

\* C25: no two chapters of the novel have the same chapterNumber.
C25_ChapterNumbersAreUnique ==
    \A i, j \in 1..Len(chapters) :
       i # j => chapters[i].chapterNumber # chapters[j].chapterNumber

\* ------------------------------------------------------------ ReaderPage

\* setChapter(currentChap || null): the page holds no chapter.
NoChapter == 0

\* The largest chapter number of a run: creations stop there.
MaxNumber == MaxChapters + 1

\* The rows of select('*, chapters(*)') as the database hands them over: the embedded
\* rows come in no defined order.
Orders(tbl) ==
    {[k \in 1..Len(tbl) |-> tbl[p[k]]] : p \in Permutations(1..Len(tbl))}

\* Array.prototype.sort with (a, b) => a.chapterNumber - b.chapterNumber, one
\* element at a time: c goes after the last row whose number is not larger.
RECURSIVE InsertChapter(_, _)
InsertChapter(sorted, c) ==
    IF sorted = <<>> THEN <<c>>
    ELSE IF c.chapterNumber - sorted[Len(sorted)].chapterNumber >= 0
         THEN Append(sorted, c)
         ELSE Append(InsertChapter(SubSeq(sorted, 1, Len(sorted) - 1), c),
                     sorted[Len(sorted)])

RECURSIVE SortChapters(_)
SortChapters(rows) ==
    IF rows = <<>> THEN <<>>
    ELSE InsertChapter(SortChapters(SubSeq(rows, 1, Len(rows) - 1)), rows[Len(rows)])

\* A getNovel that hands the rows over as the database returned them.
GetNovelUnsorted(rows) == rows

\* ApiService.getNovel on the rows the database returned: the chapters of the novel
\* it hands to the page.
GetNovel(rows) == SortChapters(rows)

\* novelData.chapters.find(c => c.chapterNumber === chapNum): the id of the first
\* chapter with that number, or NoChapter.
FindChapter(novelChapters, chapNum) ==
    LET at == {k \in 1..Len(novelChapters) : novelChapters[k].chapterNumber = chapNum}
    IN IF at = {} THEN NoChapter
       ELSE novelChapters[CHOOSE k \in at : \A m \in at : k <= m].id

\* The getNovel call of loadChapter; its continuation captured chapNum.
ReaderRequest(chapNum) == [kind |-> "getNovel", page |-> "reader", held |-> chapNum]

\* The answers of getNovel: the novel, null (the later service on an error) or an
\* exception (the earlier service on an error).
GetNovelAnswers == {"novel", "null", "throw"}

\* The continuation of loadChapter after getNovel. The effect has no cleanup, so the
\* answer of every call sets the state of the page.
LoadChapterResolves(r, answer) ==
    /\ page = "reader"
    /\ r \in BagToSet(inflight)
    /\ r.kind = "getNovel" /\ r.page = "reader"
    /\ inflight' = Without(inflight, r)
    /\ CASE answer = "novel" ->
              \E rows \in Orders(chapters) :
                  reader' = [reader EXCEPT !.novel = GetNovel(rows), !.loaded = TRUE,
                                           !.chapter = FindChapter(GetNovel(rows), r.held)]
         [] answer = "null" -> UNCHANGED reader
         [] answer = "throw" ->
              reader' = [reader EXCEPT !.novel = <<>>, !.loaded = FALSE,
                                       !.chapter = NoChapter]
    /\ UNCHANGED <<page, inst, manage, session, search>>
    /\ UNCHANGED <<editors, readers, accounts, home>>

\* A click on Prev (delta -1) or Next (delta 1): the button is rendered once a
\* chapter and a novel are held, it is disabled at the ends of the count, and
\* goToChapter navigates when the number lies within the count of chapters. The new
\* route runs the load effect again.
GoToChapter(delta) ==
    LET chapterNumber == reader.chapterId + delta
    IN /\ page = "reader"
       /\ reader.loaded /\ reader.chapter # NoChapter
       /\ IF delta < 0 THEN ~(reader.chapterId <= 1)
                       ELSE ~(reader.chapterId >= Len(reader.novel))
       /\ chapterNumber > 0 /\ chapterNumber <= Len(reader.novel)
       /\ BagCardinality(inflight) < MaxInflight
       /\ reader' = [reader EXCEPT !.chapterId = chapterNumber]
       /\ inflight' = With(inflight, ReaderRequest(chapterNumber))
       /\ UNCHANGED <<page, inst, manage, session, search>>
       /\ UNCHANGED <<editors, readers, accounts, home>>

\* ------------------------------------------------------------ ManageChaptersPage

ManageRequest(kind, id) == [kind |-> kind, page |-> "manage-chapters", held |-> id]

ManageInFlight == \E r \in BagToSet(inflight) : r.page = "manage-chapters"

\* The author opens the page: its effect calls fetchNovel.
OpenManageChapters ==
    /\ ~manage.mounted /\ ~ManageInFlight
    /\ BagCardinality(inflight) < MaxInflight
    /\ manage' = [novel |-> <<>>, loaded |-> FALSE, mounted |-> TRUE]
    /\ inflight' = With(inflight, ManageRequest("getNovel", 0))
    /\ UNCHANGED <<page, inst, reader, session, search>>
    /\ UNCHANGED <<editors, readers, accounts, home>>

\* The continuation of fetchNovel: the author's novel is set, anything else sends
\* the author to /my-works.
FetchNovelResolves(r, answer) ==
    /\ r \in BagToSet(inflight)
    /\ r.kind = "getNovel" /\ r.page = "manage-chapters"
    /\ inflight' = Without(inflight, r)
    /\ IF answer = "novel"
       THEN \E rows \in Orders(chapters) :
                manage' = [manage EXCEPT !.novel = GetNovel(rows), !.loaded = TRUE]
       ELSE manage' = [novel |-> <<>>, loaded |-> FALSE, mounted |-> FALSE]
    /\ UNCHANGED <<page, inst, reader, session, search>>
    /\ UNCHANGED <<editors, readers, accounts, home>>

\* handleDeleteChapter, confirmed, of a chapter the page lists.
HandleDeleteChapter(k) ==
    /\ manage.mounted /\ manage.loaded
    /\ k \in 1..Len(manage.novel)
    /\ BagCardinality(inflight) < MaxInflight
    /\ inflight' = With(inflight, ManageRequest("deleteChapter", manage.novel[k].id))
    /\ UNCHANGED <<page, inst, reader, manage, session, search>>
    /\ UNCHANGED <<editors, readers, accounts, home>>

\* The rows of the table but the one with this id; no row is renumbered.
DeletedFrom(tbl, id) == SelectSeq(tbl, LAMBDA c : c.id # id)

\* The continuation of handleDeleteChapter: on success the row is gone and the
\* page fetches the novel again, otherwise an alert.
DeleteChapterResolves(r, success) ==
    /\ r \in BagToSet(inflight)
    /\ r.kind = "deleteChapter"
    /\ IF success
       THEN /\ chapters' = DeletedFrom(chapters, r.held)
            /\ inflight' = With(Without(inflight, r), ManageRequest("getNovel", 0))
       ELSE /\ inflight' = Without(inflight, r)
            /\ UNCHANGED chapters
    /\ UNCHANGED <<page, inst, reader, manage, session, search>>
    /\ UNCHANGED <<ed, retryTimeouts, hist, readers, accounts, home>>

\* An id no row of the table has.
FreshId(tbl) ==
    CHOOSE id \in 1..(Len(tbl) + 1) : \A k \in 1..Len(tbl) : tbl[k].id # id

\* The author follows "Add chapter" to the editor, which loads the novel, and saves:
\* handleSubmit adds the chapter numbered one past the largest and returns to
\* the page, which mounts anew and fetches the novel.
AddChapterFromManage ==
    /\ manage.mounted /\ manage.loaded /\ ~ManageInFlight
    /\ Len(chapters) < MaxChapters
    /\ NewChapterNumber(ChapterNumbers(chapters)) <= MaxNumber
    /\ BagCardinality(inflight) < MaxInflight
    /\ chapters' = Append(chapters,
                          [id |-> FreshId(chapters), title |-> "T", content |-> "a",
                           chapterNumber |-> NewChapterNumber(ChapterNumbers(chapters))])
    /\ manage' = [novel |-> <<>>, loaded |-> FALSE, mounted |-> TRUE]
    /\ inflight' = With(inflight, ManageRequest("getNovel", 0))
    /\ UNCHANGED <<page, inst, reader, session, search>>
    /\ UNCHANGED <<ed, retryTimeouts, hist, readers, accounts, home>>

\* The novels creations and deletions lead to: chapters of distinct numbers, in the
\* order of their creation.
ReachableTables ==
    {tbl \in UNION {[1..n -> [id : 1..MaxChapters, title : {"T"}, content : {"a"},
                              chapterNumber : 1..MaxNumber]] : n \in 1..MaxChapters} :
        /\ \A k \in 1..Len(tbl) : tbl[k].id = k
        /\ \A k \in 1..(Len(tbl) - 1) : tbl[k].chapterNumber < tbl[k + 1].chapterNumber}

\* A reader opens a chapter of a novel out of its table of contents, while the
\* author of the novel is elsewhere in the application.
InitReader ==
    /\ chapters \in ReachableTables
    /\ page = "reader"
    /\ inst = 1
    /\ \E k \in 1..Len(chapters) :
          /\ reader = [novel |-> <<>>, loaded |-> FALSE,
                       chapterId |-> chapters[k].chapterNumber, chapter |-> NoChapter]
          /\ inflight = SetToBag({ReaderRequest(chapters[k].chapterNumber)})
    /\ manage = [novel |-> <<>>, loaded |-> FALSE, mounted |-> FALSE]
    /\ session = [user |-> 0, isAuthenticated |-> FALSE, signedIn |-> 0]
    /\ search = [query |-> <<>>, filteredNovels |-> <<>>, loading |-> TRUE]
    /\ ed = Blank
    /\ retryTimeouts = <<>>
    /\ hist = HistOf({})
    /\ NoDetailPage
    /\ novels = <<>>
    /\ NoAdminPage
    /\ NoHomePage

NextReader ==
    \/ \E r \in BagToSet(inflight), answer \in GetNovelAnswers :
          LoadChapterResolves(r, answer)
    \/ \E delta \in {-1, 1} : GoToChapter(delta)
    \/ OpenManageChapters
    \/ \E r \in BagToSet(inflight), answer \in {"novel", "null"} :
          FetchNovelResolves(r, answer)
    \/ \E k \in 1..MaxChapters : HandleDeleteChapter(k)
    \/ \E r \in BagToSet(inflight), success \in BOOLEAN : DeleteChapterResolves(r, success)
    \/ AddChapterFromManage

SpecReader == InitReader /\ [][NextReader]_vars

\* C29: every navigation goToChapter performs goes to the number of a chapter of
\* the novel the reader holds.
C29_GoToChapterLandsOnAChapter ==
    [][(page = "reader" /\ reader'.chapterId # reader.chapterId)
          => \E k \in 1..Len(reader.novel) :
                reader.novel[k].chapterNumber = reader'.chapterId]_vars

\* The reader sits on "Loading chapter...": it holds a novel, no chapter, and no
\* load is on its way.
ReaderStuck ==
    /\ page = "reader" /\ reader.loaded /\ reader.chapter = NoChapter
    /\ ~\E r \in BagToSet(inflight) : r.page = "reader"

\* Chapters in ascending order of chapterNumber.
Ascending(novelChapters) ==
    \A i, j \in 1..Len(novelChapters) :
        i < j => novelChapters[i].chapterNumber <= novelChapters[j].chapterNumber

\* C24: the novel a page holds after getNovel has its chapters in ascending order
\* of chapterNumber.
C24_LoadedChaptersAreSorted ==
    /\ reader.loaded => Ascending(reader.novel)
    /\ manage.loaded => Ascending(manage.novel)

\* Both pages hold a novel of several chapters.
C24_Witness ==
    /\ reader.loaded /\ Len(reader.novel) >= 2
    /\ manage.loaded /\ Len(manage.novel) >= 2

\* ------------------------------------------------------------ the editor and its user

\* The id of the novel's author (novel.authorId); the other user has id 2.
NovelAuthorId == 1

\* The sessions the editor is opened in at most.
MaxSessions == 2

\* The users who may follow a link to the editor: nobody, the novel's author, and
\* an administrator or the owner, who did not write the novel.
EditorUsers ==
    {NoUser, [id |-> NovelAuthorId, role |-> "AUTHOR"], [id |-> 2, role |-> "ADMIN"],
     [id |-> 2, role |-> "OWNER"]}

\* A check of the loaded novel that lets every signed-in user pass.
IsSignedIn(u) == u.id # 0

\* novelData.authorId !== user.id, negated.
IsAuthor(u) == u.id = NovelAuthorId

\* The route /edit-chapter/:novelId(/:chapterId) is opened from another page: the
\* load effect sends a visitor without a user to /my-works, and otherwise
\* awaits getNovel.
OpenEditChapter(cid) ==
    /\ page \notin Editors
    /\ inst < MaxSessions
    /\ cid \in 0..Len(chapters)
    /\ IF auth = NoUser
       THEN Commit(NavigateAway(UI, "my-works"), inflight)
       ELSE /\ BagCardinality(inflight) < MaxInflight
            /\ Commit(NavigateEditChapter(UI, cid), inflight)
    /\ hist' = HistOf(hist.watch)
    /\ UNCHANGED chapters
    /\ UNCHANGED others

\* getNovel of loadData resolves for the user who opened the editor: the novel is
\* set only when this user wrote it.
LoadDataResolvesFor(r, ok) ==
    /\ ok => (IsAuthor(auth) \/ ~Live(UI, r))
    /\ LoadDataResolves(r, ok)

\* The user of the context becomes null (logout, or the sign-out event). The load
\* effect of a mounted editor depends on user: it runs again and navigates to
\* /my-works, and the editor unmounts.
SignOut ==
    /\ auth # NoUser
    /\ auth' = NoUser
    /\ IF page = "edit-chapter"
       THEN Commit(NavigateAway(UI, "my-works"), inflight)
       ELSE UNCHANGED <<page, inst, ed, retryTimeouts, inflight>>
    /\ hist' = HistOf(hist.watch)
    /\ UNCHANGED <<chapters, readers, admin, profiles, home, visitors>>

\* A user signs in on a page that is not the editor, once the calls of the
\* last session are answered.
SignIn(u) ==
    /\ auth = NoUser
    /\ page \notin Editors
    /\ inflight = EmptyBag
    /\ u # NoUser
    /\ auth' = u
    /\ UNCHANGED <<editors, inflight, page, inst, readers, admin, profiles, home, visitors>>

\* The chapter list of a novel with or without a chapter, and somebody about to
\* open the editor of the novel.
InitAuthor ==
    /\ chapters \in {<<>>, <<FirstChapter>>}
    /\ page = "manage-chapters"
    /\ inst = 0
    /\ ed = Blank
    /\ inflight = EmptyBag
    /\ retryTimeouts = <<>>
    /\ hist = HistOf({})
    /\ auth \in EditorUsers
    /\ admin = [users |-> <<>>, isLoading |-> TRUE, mounted |-> FALSE]
    /\ profiles = <<>>
    /\ NoDetailPage
    /\ novels = <<>>
    /\ NoHomePage
    /\ NoVisitor

\* The timer callback and handleSubmit return at once without a user.
NextAuthor ==
    \/ \E cid \in 0..MaxChapters : OpenEditChapter(cid)
    \/ \E r \in BagToSet(inflight), ok \in BOOLEAN : LoadDataResolvesFor(r, ok)
    \/ \E v \in TitleValues : inflight = EmptyBag /\ HandleChange("title", v)
    \/ \E v \in ContentValues : inflight = EmptyBag /\ HandleChange("content", v)
    \/ auth # NoUser /\ AutoSaveTimerFires
    \/ \E r \in BagToSet(inflight), ok \in BOOLEAN : AutoSaveResolves(r, ok)
    \/ RetryTimeoutFires
    \/ \E publish \in BOOLEAN : auth # NoUser /\ HandleSubmit(publish)
    \/ \E r \in BagToSet(inflight), ok \in BOOLEAN : HandleSubmitResolves(r, ok)
    \/ SignOut
    \/ \E u \in EditorUsers : SignIn(u)
    \/ Tick

SpecAuthor == InitAuthor /\ [][NextAuthor]_vars

\* The write requests a step issues.
IssuedWrites ==
    {r \in BagToSet(inflight') : IsWrite(r) /\ CopiesIn(r, inflight') > CopiesIn(r, inflight)}

Accounts == {1, 2, 3}

\* The page open while the session changes tells the two copies of App apart:
\* "home" is a page of the later one, "/" of the earlier one.
LaterApp == page = "home"

\* ApiService.getUser(session.user.id) of the auth callback.
GetUserRequest(id) == [kind |-> "getUser", page |-> page, held |-> id]

\* The onAuthStateChange callback on an event without a session:
\* setIsAuthenticated(false) and setUser(null) in either copy.
SignedOutEvent(s) == [s EXCEPT !.user = 0, !.isAuthenticated = FALSE]

\* The callback on an event with a session, up to its call of getUser: the later
\* App has set isAuthenticated by then, the earlier one sets nothing before
\* the answer.
SessionEvent(s) == IF LaterApp THEN [s EXCEPT !.isAuthenticated = TRUE] ELSE s

\* login: signInWithPassword succeeds, and the auth client calls the callback with
\* the new session.
Login(id) ==
    /\ session.signedIn = 0
    /\ BagCardinality(inflight) < MaxInflight
    /\ session' = [SessionEvent(session) EXCEPT !.signedIn = id]
    /\ inflight' = With(inflight, GetUserRequest(id))
    /\ UNCHANGED <<page, inst, reader, search, manage>>
    /\ UNCHANGED <<editors, readers, accounts, home>>

\* A later event of the same session (token refreshed, user updated): the callback
\* runs once more.
AuthEvent ==
    /\ session.signedIn # 0
    /\ BagCardinality(inflight) < MaxInflight
    /\ session' = SessionEvent(session)
    /\ inflight' = With(inflight, GetUserRequest(session.signedIn))
    /\ UNCHANGED <<page, inst, reader, search, manage>>
    /\ UNCHANGED <<editors, readers, accounts, home>>

\* The answers of getUser: the profile, null, or an exception.
GetUserAnswers == {"profile", "null", "throw"}

\* The continuation of the callback after getUser. The later App sets the profile,
\* or signs out when there is none, and the sign-out event is handled; the earlier
\* one sets the user and isAuthenticated from the profile.
GetUserResolves(r, answer) ==
    /\ r \in BagToSet(inflight)
    /\ r.kind = "getUser"
    /\ inflight' = Without(inflight, r)
    /\ session' =
         IF LaterApp
         THEN IF answer = "profile" THEN [session EXCEPT !.user = r.held]
              ELSE [SignedOutEvent(session) EXCEPT !.signedIn = 0]
         ELSE IF answer = "profile"
              THEN [session EXCEPT !.user = r.held, !.isAuthenticated = TRUE]
              ELSE SignedOutEvent(session)
    /\ UNCHANGED <<page, inst, reader, search, manage>>
    /\ UNCHANGED <<editors, readers, accounts, home>>

\* logout, from the menus of the header, which show it to an authenticated user
\* (the profile menu when the user is set as well): signOut ends the session and
\* the callback handles the event, then logout itself sets the user null and
\* isAuthenticated false.
Logout ==
    /\ session.signedIn # 0
    /\ session.isAuthenticated
    /\ LaterApp => session.user # 0
    /\ session' = [SignedOutEvent(SignedOutEvent(session)) EXCEPT !.signedIn = 0]
    /\ UNCHANGED <<page, inst, inflight, reader, search, manage>>
    /\ UNCHANGED <<editors, readers, accounts, home>>

\* App has mounted and nobody is signed in.
InitSession ==
    /\ page \in {"home", "/"}
    /\ inst = 1
    /\ inflight = EmptyBag
    /\ session = [user |-> 0, isAuthenticated |-> FALSE, signedIn |-> 0]
    /\ reader = [novel |-> <<>>, loaded |-> FALSE, chapterId |-> 0, chapter |-> 0]
    /\ search = [query |-> <<>>, filteredNovels |-> <<>>, loading |-> TRUE]
    /\ manage = [novel |-> <<>>, loaded |-> FALSE, mounted |-> FALSE]
    /\ NoEditor
    /\ NoDetailPage
    /\ novels = <<>>
    /\ NoAdminPage
    /\ NoHomePage

NextSession ==
    \/ \E id \in Accounts : Login(id)
    \/ AuthEvent
    \/ \E r \in BagToSet(inflight), answer \in GetUserAnswers : GetUserResolves(r, answer)
    \/ Logout

SpecSession == InitSession /\ [][NextSession]_vars

\* C23: while the auth client holds no session (logout has completed and its event
\* was handled, and no sign-in came since), the context's user is null and
\* isAuthenticated is false.
C23_SignedOutMeansNoUser ==
    session.signedIn = 0 => (session.user = 0 /\ ~session.isAuthenticated)

\* ------------------------------------------------------------ SearchResultsPage

\* The longest word, and the longest novel list, of a search.
MaxWordLen == 2
MaxListed == 2

\* The strings of a search are sequences of these characters.
Letters == {"a", "A", "b", "B"}
Words == UNION {[1..n -> Letters] : n \in 0..MaxWordLen}

\* String.prototype.toLowerCase, character by character.
LowerOf(c) == CASE c = "A" -> "a" [] c = "B" -> "b" [] OTHER -> c
ToLowerCase(s) == [k \in 1..Len(s) |-> LowerOf(s[k])]

\* String.prototype.includes: the first position at or after `at` where q starts.
RECURSIVE IncludesFrom(_, _, _)
IncludesFrom(s, q, at) ==
    IF at + Len(q) > Len(s) THEN FALSE
    ELSE IF SubSeq(s, at + 1, at + Len(q)) = q THEN TRUE
    ELSE IncludesFrom(s, q, at + 1)

Includes(s, q) == IncludesFrom(s, q, 0)

\* The predicate of the header's suggestions: title and author name only.
SuggestionMatches(novel, lowercasedQuery) ==
    \/ Includes(ToLowerCase(novel.title), lowercasedQuery)
    \/ Includes(ToLowerCase(novel.authorName), lowercasedQuery)

\* The predicate of novels.filter in the effect of SearchResultsPage.
NovelMatches(novel, lowercasedQuery) ==
    \/ Includes(ToLowerCase(novel.title), lowercasedQuery)
    \/ Includes(ToLowerCase(novel.authorName), lowercasedQuery)
    \/ \E k \in 1..Len(novel.tags) : Includes(ToLowerCase(novel.tags[k]), lowercasedQuery)

\* The effect of SearchResultsPage: what it stores in filteredNovels.
FilterEffect(query, list, loading) ==
    IF ~loading /\ query # <<>>
    THEN SelectSeq(list, LAMBDA novel : NovelMatches(novel, ToLowerCase(query)))
    ELSE <<>>

\* The novels of the list: of a novel the search reads title, authorName and tags.
SearchNovels ==
    [title : {<<"A", "b">>, <<"b">>},
     authorName : {<<"a">>, <<"B", "a">>},
     tags : {<<>>, << <<"A">> >>, << <<"b", "b">>, <<"a", "B">> >>}]

SearchLists == UNION {[1..n -> SearchNovels] : n \in 0..MaxListed}

\* NovelsProvider has fetched the list: loading turns false and the effect runs.
NovelsLoaded(list) ==
    /\ page = "search"
    /\ search.loading
    /\ novels' = list
    /\ search' = [search EXCEPT !.loading = FALSE,
                                !.filteredNovels = FilterEffect(search.query, list, FALSE)]
    /\ UNCHANGED <<page, inst, inflight, detail, remote, home, reader, session, manage>>
    /\ UNCHANGED <<editors, accounts>>

\* The route's q changes (a search submitted from the header): the effect runs.
SetQuery(q) ==
    /\ page = "search"
    /\ q # search.query
    /\ search' = [search EXCEPT !.query = q,
                                !.filteredNovels = FilterEffect(q, novels, search.loading)]
    /\ UNCHANGED <<page, inst, inflight, detail, novels, remote, home, reader, session, manage>>
    /\ UNCHANGED <<editors, accounts>>

\* /search was opened, without a query or with the query "A", while
\* NovelsProvider is still fetching.
InitSearch ==
    /\ page = "search"
    /\ inst = 1
    /\ inflight = EmptyBag
    /\ novels = <<>>
    /\ \E q \in {<<>>, <<"A">>} :
          search = [query |-> q, filteredNovels |-> FilterEffect(q, <<>>, TRUE),
                    loading |-> TRUE]
    /\ reader = [novel |-> <<>>, loaded |-> FALSE, chapterId |-> 0, chapter |-> 0]
    /\ session = [user |-> 0, isAuthenticated |-> FALSE, signedIn |-> 0]
    /\ manage = [novel |-> <<>>, loaded |-> FALSE, mounted |-> FALSE]
    /\ NoEditor
    /\ NoDetailPage
    /\ NoAdminPage
    /\ NoHomePage

NextSearch ==
    \/ \E list \in SearchLists : NovelsLoaded(list)
    \/ \E q \in Words : SetQuery(q)

SpecSearch == InitSearch /\ [][NextSearch]_vars

\* q occurs in s: some stretch of s, from i to j, is q.
IsSubstringOf(q, s) == \E i \in 1..(Len(s) + 1), j \in 0..Len(s) : SubSeq(s, i, j) = q

====
